---- MODULE Spec2Model ----
(***************************************************************************)
(* claude-collab: the Hub server (connections, teams, questions, answers)  *)
(* and the Hub client (request/response correlation over one WebSocket).   *)
(*                                                                         *)
(* Time is not counted.  The instant at which the timeoutMs of a wait have *)
(* elapsed is an event of its own (Elapse); it runs the wait's setTimeout  *)
(* callback if that timer is still armed.  Of two waits of one client, the *)
(* one that began first and has the shorter or equal timeout elapses       *)
(* first; otherwise the order is free.  Likewise a question becomes older  *)
(* than the hub's answer timeout at some instant after its creation, older *)
(* questions first, and not while a wait still running on the asker's side *)
(* shows the question to be younger.  A connection's lastPing is "recent"  *)
(* or "old": older than the hub's client timeout.                          *)
(* A JavaScript event handler together with the promise continuations it   *)
(* releases runs to completion, so each handler is one action.  The        *)
(* exception is two messages that a socket reads in one chunk and emits in *)
(* one tick: the listener runs for the second before the continuations of  *)
(* the first (HandleAhead on the hub, DeliverTogether on the client).      *)
(***************************************************************************)
EXTENDS Integers, Sequences, FiniteSets, TLC

\* ------------------------------------------------------------------------
\* Bounds of the model (not program constants)
\* ------------------------------------------------------------------------
MaxReplies == 1

\* ------------------------------------------------------------------------
\* Program constants (milliseconds in the source)
\* ------------------------------------------------------------------------
JoinTimeoutMs == 30000
AckTimeoutMs == 5000
\* config.communication.defaultTimeout
DefaultTimeoutMs == 30000
InboxTimeoutMs == 5000
MaxRetries == 3

\* ------------------------------------------------------------------------
\* Inputs
\* ------------------------------------------------------------------------
Client == {"A", "B"}

\* config.communication.maxMessageLength
MaxMessageLength == 50000
\* a text of MaxMessageLength + 1 characters
Oversized == "qq.."

\* The strings the model uses, and the characters of each (of Oversized, the
\* first two)
Strings ==
  {"", " ", "x", "X", "y", "Y", " y ", " Y ", "1x", "q", "a", Oversized,
   "Claude A", "Claude B"}
Chars(s) ==
  CASE s = "" -> <<>>
    [] s = " " -> <<" ">>
    [] s = " y " -> <<" ", "y", " ">>
    [] s = " Y " -> <<" ", "Y", " ">>
    [] s = "1x" -> <<"1", "x">>
    [] s = Oversized -> <<"q", "q">>
    [] s = "Claude A" -> <<"C", "l", "a", "u", "d", "e", " ", "A">>
    [] s = "Claude B" -> <<"C", "l", "a", "u", "d", "e", " ", "B">>
    [] OTHER -> <<s>>
Str(chars) == CHOOSE s \in Strings : Chars(s) = chars
\* String.prototype.length
Length(s) == IF s = Oversized THEN MaxMessageLength + 1 ELSE Len(Chars(s))

RECURSIVE TrimStart(_)
TrimStart(chars) ==
  IF chars # <<>> /\ Head(chars) = " " THEN TrimStart(Tail(chars)) ELSE chars
RECURSIVE TrimEnd(_)
TrimEnd(chars) ==
  IF chars # <<>> /\ chars[Len(chars)] = " "
  THEN TrimEnd(SubSeq(chars, 1, Len(chars) - 1)) ELSE chars
LowerChar(ch) ==
  CASE ch = "A" -> "a" [] ch = "B" -> "b" [] ch = "C" -> "c" [] ch = "X" -> "x"
    [] ch = "Y" -> "y" [] OTHER -> ch

\* String.prototype.trim and toLowerCase
Trim(s) == Str(TrimEnd(TrimStart(Chars(s))))
ToLowerCase(s) == Str([n \in 1..Len(Chars(s)) |-> LowerChar(Chars(s)[n])])

\* ------------------------------------------------------------------------
\* Wire messages.  A field that is undefined in the source (and therefore
\* dropped by JSON.stringify) holds the corresponding No* value.
\* ------------------------------------------------------------------------
NoId == 0
NoMember == [memberId |-> NoId, teamId |-> "", teamName |-> "", displayName |-> "",
             status |-> ""]

HubMsg(t) == [type |-> t, requestId |-> NoId, questionId |-> NoId, member |-> NoMember,
              memberId |-> NoId, teamId |-> "", content |-> "", format |-> "",
              code |-> "", message |-> "", status |-> "", questions |-> <<>>,
              totalCount |-> 0, pendingCount |-> 0, memberCount |-> 0]
NoMsg == HubMsg("NONE")

ClientMsg(t) == [type |-> t, teamName |-> "", displayName |-> "", toTeam |-> "",
                 content |-> "", format |-> "", requestId |-> NoId, questionId |-> NoId]

\* createErrorMessage(code, message, requestId?)
createErrorMessage(code, message, requestId) ==
  [HubMsg("ERROR") EXCEPT !.code = code, !.message = message, !.requestId = requestId]

\* data that JSON.parse rejects, and messages without a type and of a type
\* the hub does not know
NotJson == [ClientMsg("") EXCEPT !.content = "{"]
NoType == ClientMsg("")
Bogus == ClientMsg("BOGUS")

\* One step of a terminal: a call of the application on its HubClient, or
\* ("ping") the client's ping interval coming round
Call(op, name, ms) ==
  [op |-> op, name |-> name, timeoutMs |-> ms, content |-> "q", questionId |-> 0,
   message |-> ClientMsg("NONE"), next |-> ClientMsg("NONE")]
\* the same call with another content; a reply to question q with a content
Saying(call, content) == [call EXCEPT !.content = content]
ReplyTo(q, content) == [Call("reply", "", 0) EXCEPT !.content = content, !.questionId = q]
\* a peer that writes a message on the terminal's socket itself
Raw(message) == [Call("raw", "", 0) EXCEPT !.message = message]
\* a peer that writes the messages of two such steps back to back
Pipelined(first, second) ==
  [Call("pipeline", "", 0) EXCEPT !.message = first.message, !.next = second.message]
AskPayload == <<"q", "plain">>
\* what the replying terminal answers
Payloads == {<<"a", "markdown">>}
\* the id of a question that was never asked
NoQuestion == 9

\* The programs the two terminals run: the steps each takes, in order.  A call
\* is made without waiting for the calls before it to settle, so the calls of
\* one program also run concurrently.  The replying terminal answers any
\* question at any time, MaxReplies times in all.
TwoAsks ==
  [A |-> <<Call("connect", "", 0), Call("join", "x", 0), Call("ask", "Y", 5000),
           Call("ask", "Y", 10000)>>,
   B |-> <<Call("connect", "", 0), Call("join", "Y", 0)>>]
AskAndInbox ==
  [A |-> <<Call("connect", "", 0), Call("join", "x", 0), Call("ask", "Y", 5000),
           Call("getInbox", "", 0)>>,
   B |-> <<Call("connect", "", 0), Call("join", "Y", 0)>>]
AskAndPing ==
  [A |-> <<Call("connect", "", 0), Call("join", "x", 0), Call("ask", "Y", 5000),
           Call("ping", "", 0)>>,
   B |-> <<Call("connect", "", 0), Call("join", "Y", 0)>>]
TwoInboxes ==
  [A |-> <<Call("connect", "", 0), Call("join", "x", 0), Call("getInbox", "", 0),
           Call("getInbox", "", 0)>>,
   B |-> <<Call("connect", "", 0), Call("join", "Y", 0)>>]
AskedInbox ==
  [A |-> <<Call("connect", "", 0), Call("join", "x", 0), Call("ask", "Y", 5000)>>,
   B |-> <<Call("connect", "", 0), Call("join", "Y", 0), Call("getInbox", "", 0)>>]
Unjoined ==
  [A |-> <<Call("connect", "", 0), Call("ask", "Y", 5000), Call("join", " ", 0),
           Call("getInbox", "", 0)>>,
   B |-> <<Call("connect", "", 0), Call("join", "Y", 0)>>]
Leaving ==
  [A |-> <<Call("connect", "", 0), Call("join", "x", 0), Call("disconnect", "", 0),
           Call("ask", "Y", 5000)>>,
   B |-> <<Call("connect", "", 0), Call("join", "Y", 0)>>]
AskEarly ==
  [A |-> <<Call("ask", "Y", 5000), Call("connect", "", 0), Call("join", "x", 0),
           Call("ask", "Y", 5000)>>,
   B |-> <<Call("connect", "", 0), Call("join", "Y", 0)>>]
Teammates ==
  [A |-> <<Call("connect", "", 0), Call("join", "y", 0), Call("disconnect", "", 0)>>,
   B |-> <<Call("connect", "", 0), Call("join", "Y", 0)>>]
\* Programs in which the hub's operator acts too (H): stop() is called, or the
\* heartbeat finds a connection silent
HubStops ==
  [A |-> <<Call("connect", "", 0), Call("join", "x", 0)>>,
   B |-> <<Call("connect", "", 0), Call("join", "Y", 0)>>,
   H |-> <<Call("stop", "", 0)>>]
Flapping ==
  [A |-> <<Call("connect", "", 0), Call("connect", "", 0)>>,
   B |-> <<>>,
   H |-> <<Call("silence", "", 0), Call("terminate", "", 0), Call("stop", "", 0)>>]
Dropped ==
  [A |-> <<Call("connect", "", 0), Call("join", "x", 0), Call("ask", "Y", 5000)>>,
   B |-> <<Call("connect", "", 0), Call("join", "Y", 0)>>,
   H |-> <<Call("silence", "", 0), Call("terminate", "", 0)>>]
\* The replying terminal answers question 1 as a step of its program, besides
\* the reply that either terminal makes at any time
Replying ==
  [A |-> <<Call("connect", "", 0), Call("join", "x", 0), Call("ask", "Y", 5000)>>,
   B |-> <<Call("connect", "", 0), Call("join", "Y", 0), ReplyTo(1, "a")>>]
BadReplies ==
  [A |-> <<Call("connect", "", 0), Call("join", "x", 0), Call("ask", "Y", 5000)>>,
   B |-> <<Call("connect", "", 0), Call("join", "Y", 0), ReplyTo(1, " "),
           ReplyTo(1, Oversized), ReplyTo(NoQuestion, "a")>>]
\* Team names written with capitals and with spaces around them
Casing ==
  [A |-> <<Call("connect", "", 0), Call("join", "X", 0), Call("ask", " Y ", 5000)>>,
   B |-> <<Call("connect", "", 0), Call("join", " y ", 0)>>]
\* A team name that starts with a digit
DigitFirst ==
  [A |-> <<Call("connect", "", 0), Call("join", "1x", 0)>>,
   B |-> <<Call("connect", "", 0), Call("join", "Y", 0), Call("ask", "1x", 5000)>>]
\* A terminal asks its own team, with a good, an empty and an oversized content
OwnTeam ==
  [A |-> <<Call("connect", "", 0), Call("join", "x", 0), Call("ask", "X", 5000),
           Saying(Call("ask", "x", 5000), " "),
           Saying(Call("ask", "X", 5000), Oversized)>>,
   B |-> <<>>]
\* A terminal asks another team with an empty and with an oversized content
BadAsks ==
  [A |-> <<Call("connect", "", 0), Call("join", "x", 0),
           Saying(Call("ask", "Y", 5000), " "),
           Saying(Call("ask", "Y", 5000), Oversized)>>,
   B |-> <<Call("connect", "", 0), Call("join", "Y", 0)>>]
\* A terminal that never joins asks for its inbox, replies and asks
NeverJoined ==
  [A |-> <<Call("connect", "", 0), Call("getInbox", "", 0), ReplyTo(NoQuestion, "a"),
           Call("ask", "Y", 5000)>>,
   B |-> <<Call("connect", "", 0), Call("join", "Y", 0)>>]
\* A peer leaves its team and goes on talking on the same connection
AfterLeave ==
  [A |-> <<Call("connect", "", 0), Call("join", "x", 0), Raw(ClientMsg("LEAVE")),
           Raw([ClientMsg("GET_INBOX") EXCEPT !.requestId = 7]),
           Raw([ClientMsg("ASK") EXCEPT !.toTeam = "x", !.content = "q",
                                        !.format = "plain", !.requestId = 8]),
           Raw([ClientMsg("REPLY") EXCEPT !.questionId = NoQuestion, !.content = "a",
                                          !.format = "plain"])>>,
   B |-> <<Call("connect", "", 0), Call("join", "x", 0)>>]
\* A peer that has joined sends data that is no JSON, a message of an unknown
\* type and a message without a type
Garbled ==
  [A |-> <<Call("connect", "", 0), Call("join", "x", 0), Raw(NotJson), Raw(Bogus),
           Raw(NoType)>>,
   B |-> <<Call("connect", "", 0), Raw(Bogus)>>]
\* Two terminals join the same team and the heartbeat drops one connection
TeammateDropped ==
  [A |-> <<Call("connect", "", 0), Call("join", "y", 0)>>,
   B |-> <<Call("connect", "", 0), Call("join", "Y", 0)>>,
   H |-> <<Call("silence", "", 0), Call("terminate", "", 0)>>]
\* Connections fall silent and the heartbeat sweeps, while one terminal pings
\* and a peer sends a message the hub cannot parse
Silent ==
  [A |-> <<Call("connect", "", 0), Call("ping", "", 0)>>,
   B |-> <<Call("connect", "", 0), Raw(Bogus)>>,
   H |-> <<Call("silence", "", 0), Call("silence", "", 0), Call("terminate", "", 0)>>]
\* A peer asks twice and a peer in the team asked reads its inbox
RawAsk(toTeam, content, requestId) ==
  Raw([ClientMsg("ASK") EXCEPT !.toTeam = toTeam, !.content = content,
                               !.format = "plain", !.requestId = requestId])
InboxOfTwo ==
  [A |-> <<Call("connect", "", 0), Call("join", "x", 0), RawAsk("Y", "q", 7),
           RawAsk("y", "a", 8)>>,
   B |-> <<Call("connect", "", 0), Call("join", "Y", 0),
           Raw([ClientMsg("GET_INBOX") EXCEPT !.requestId = 7])>>]
\* A connection joins a team and then another one, as the join tool does each
\* time it is called; a peer of that other team asks the first team
RawJoin(teamName, displayName) ==
  Raw([ClientMsg("JOIN") EXCEPT !.teamName = teamName, !.displayName = displayName])
Rejoins ==
  [A |-> <<Call("connect", "", 0), Call("join", "x", 0), RawAsk("Y", "q", 7)>>,
   B |-> <<Call("connect", "", 0), Call("join", "Y", 0), RawJoin("x", "Claude B")>>]
\* A terminal asks with a timeout longer than the hub's
LongAsk ==
  [A |-> <<Call("connect", "", 0), Call("join", "x", 0), Call("ask", "Y", 60000)>>,
   B |-> <<Call("connect", "", 0), Raw(RawJoin("Y", "Claude B").message)>>]
\* A peer sends JOIN and ASK back to back, without waiting for JOINED
JoinThenAsk ==
  [A |-> <<Call("connect", "", 0),
           Pipelined(RawJoin("x", "Claude A"), RawAsk("Y", "q", 7))>>,
   B |-> <<Call("connect", "", 0), Call("join", "Y", 0)>>]
\* A terminal joins the same team twice
JoinsTwice ==
  [A |-> <<>>,
   B |-> <<Call("connect", "", 0), Call("join", "Y", 0), Call("join", "y", 0)>>]
Programs ==
  {TwoAsks, AskAndInbox, AskAndPing, TwoInboxes, AskedInbox, Unjoined, Leaving, AskEarly,
   Teammates, HubStops, Flapping, Dropped, Replying, BadReplies, Casing, DigitFirst,
   OwnTeam, BadAsks, NeverJoined, AfterLeave, Garbled, TeammateDropped,
   InboxOfTwo, Rejoins, JoinsTwice, Silent, JoinThenAsk, LongAsk}

\* options.reconnect as passed to the constructor: A is built with the
\* default options, B with { reconnect: false } as the e2e tests do.
ReconnectOption(c) == IF c = "A" THEN "undefined" ELSE "false"
DisplayNameOf(c) == IF c = "A" THEN "Claude A" ELSE "Claude B"

\* a team id that is only trimmed
createTeamIdKeepingCase(name) == Trim(name)

\* TeamId.create / createTeamId
createTeamId(name) == Trim(ToLowerCase(name))

\* TeamId.isValid: /^[a-z][a-z0-9-]*$/.test(id.toLowerCase().trim())
LowerLetters == {"a", "b", "c", "d", "e", "l", "q", "u", "x", "y"}
Digits == {"1"}
isValid(id) ==
  LET chars == Chars(Trim(ToLowerCase(id))) IN
  /\ chars # <<>>
  /\ chars[1] \in LowerLetters
  /\ \A n \in 2..Len(chars) : chars[n] \in LowerLetters \cup Digits \cup {"-"}

\* ------------------------------------------------------------------------
\* State
\* ------------------------------------------------------------------------
VARIABLES
  cli,               \* HubClient fields, per client
  calls,             \* the join/ask/getInbox calls made on each client, oldest first
  pendingRequests,   \* HubClient.pendingRequests in insertion order, per client
  observed,          \* observer callbacks invoked by the last inbound message, per client
  sock,              \* every WebSocket ever opened: both ends and the data in flight
  clients,           \* HubServer.clients: connection -> {memberId, teamId}
  memberToWs,        \* HubServer.memberToWs
  memberRepository,  \* members by id (ids are issued 1, 2, ...)
  teamRepository,    \* teams by team id
  questionRepository,\* questions by id
  answerRepository,  \* answers by id
  todo,              \* the calls each terminal's program has still to make
  used,              \* how many replies have been sent
  wss,               \* HubServer.wss: "listening", or "null" once stop() was called
  lastPing,          \* ClientConnection.lastPing, per connection: "recent", or "old"
                     \* once it lies more than config.hub.clientTimeout in the past
  reconnection       \* per client, since its last 'open' event: the reconnect attempts
                     \* made, those that failed, and those failures onError was told of

vars == <<cli, calls, pendingRequests, observed, sock, clients, memberToWs,
          memberRepository, teamRepository, questionRepository, answerRepository,
          todo, used, wss, lastPing, reconnection>>

clientVars == <<cli, calls, pendingRequests, observed, reconnection>>
hubVars == <<clients, memberToWs, memberRepository, teamRepository,
             questionRepository, answerRepository, wss, lastPing>>

Base == <<0, "base">>

Init ==
  /\ cli = [c \in Client |->
              [ws |-> 0, isClosing |-> FALSE, reconnectAttempts |-> 0,
               reconnectTimers |-> 0, pinging |-> FALSE, waits |-> 0,
               memberId |-> NoId, teamId |-> "", teamName |-> "", displayName |-> ""]]
  /\ calls = [c \in Client |-> <<>>]
  /\ pendingRequests = [c \in Client |-> <<>>]
  /\ observed = [c \in Client |-> <<>>]
  /\ sock = [x \in {} |-> 0]
  /\ clients = [x \in {} |-> 0]
  /\ memberToWs = [x \in {} |-> 0]
  /\ memberRepository = [x \in {} |-> 0]
  /\ teamRepository = [x \in {} |-> 0]
  /\ questionRepository = <<>>
  /\ answerRepository = <<>>
  /\ todo \in Programs
  /\ used = [replies |-> 0]
  /\ wss = "listening"
  /\ lastPing = [x \in {} |-> 0]
  /\ reconnection = [c \in Client |-> [made |-> 0, failed |-> 0, told |-> 0]]

\* ------------------------------------------------------------------------
\* Small helpers
\* ------------------------------------------------------------------------
EmptyMap == [x \in {} |-> 0]
Put(f, k, v) == [x \in (DOMAIN f) \cup {k} |-> IF x = k THEN v ELSE f[x]]
Del(f, k) == [x \in (DOMAIN f) \ {k} |-> f[x]]
Has(f, k) == k \in DOMAIN f

\* Map.delete(key) on an insertion-ordered Map, kept as the sequence of its keys
MapDelete(seq, key) == SelectSeq(seq, LAMBDA e : e # key)

\* ------------------------------------------------------------------------
\* Hub client: waiters
\*
\* A waiter is <<i, stage>>: the promise that call i of the client created by
\* waitForResponse for its "ack" stage (JOINED, QUESTION_SENT, INBOX) or, for
\* an ask, for its "answer" stage.  A call has one waiter at a time; the call
\* record holds that waiter's timer and the state of its promise.
\* ------------------------------------------------------------------------
NoInstall == <<0, "none">>

\* join: (msg) => msg.type === 'JOINED'
JoinFilter(msg) == msg.type = "JOINED"

\* ask: (msg) => msg.type === 'QUESTION_SENT' && 'requestId' in msg && msg.requestId === requestId
QuestionSentFilter(msg, requestId) ==
  msg.type = "QUESTION_SENT" /\ msg.requestId # NoId /\ msg.requestId = requestId

\* ask: (msg) => msg.type === 'ANSWER'
AnswerFilter(msg) == msg.type = "ANSWER"

\* a getInbox filter that forgets the request id
InboxFilterAnyRequest(msg, requestId) == msg.type = "INBOX"

\* getInbox: (msg) => msg.type === 'INBOX' && msg.requestId === requestId
InboxFilter(msg, requestId) == msg.type = "INBOX" /\ msg.requestId = requestId

\* the filter closure a waiter was created with
Filter(cs, w, msg) ==
  LET call == cs[w[1]] IN
  CASE w[2] = "answer" -> AnswerFilter(msg)
    [] call.kind = "join" -> JoinFilter(msg)
    [] call.kind = "ask" -> QuestionSentFilter(msg, call.requestId)
    [] OTHER -> InboxFilter(msg, call.requestId)

\* the waiter is the call's current one
IsCurrent(cs, w) == cs[w[1]].stage = w[2]
\* the waiter's promise is neither resolved nor rejected
IsPending(cs, w) == IsCurrent(cs, w) /\ cs[w[1]].state = "pending"

\* clearTimeout(timeout) of a waiter (no effect on a timer that fired or was cleared)
ClearTimeout(cs, w) ==
  IF IsCurrent(cs, w) /\ cs[w[1]].timer = "armed"
  THEN [cs EXCEPT ![w[1]].timer = "cleared"] ELSE cs

NewCall(kind, requestId) ==
  [kind |-> kind, stage |-> "ack", state |-> "pending", requestId |-> requestId,
   timeoutMs |-> 0, limit |-> 0, timer |-> "none", since |-> 0, overdue |-> FALSE,
   ack |-> NoMsg, value |-> NoMsg, error |-> "",
   teamName |-> "", displayName |-> "", replay |-> FALSE]

\* The client-side state one handler works on:
\*   cl = the HubClient fields, cs = its calls, pr = pendingRequests,
\*   install = the waiter whose checkFilter becomes the 'message' listener of
\*   this.ws (NoInstall: the listener is left as it is), obs = observers
\*   invoked, resolved = waiters resolved by this handler, in resolution order
\*   (their continuations run once the handler returns).
Bundle(c) == [cl |-> cli[c], cs |-> calls[c], pr |-> pendingRequests[c],
              install |-> NoInstall, obs |-> <<>>, resolved |-> <<>>]

\* HubClient.waitForResponse(filter, timeoutMs) for waiter w
waitForResponse(st, w, timeoutMs) ==
  [st EXCEPT !.cs[w[1]].stage = w[2],
             !.cs[w[1]].state = "pending",
             !.cs[w[1]].timer = "armed",
             !.cs[w[1]].limit = timeoutMs,
             !.cs[w[1]].since = st.cl.waits + 1,
             !.cs[w[1]].overdue = FALSE,
             !.cl.waits = @ + 1,
             !.pr = Append(@, w),
             !.install = IF st.cl.ws # 0 THEN w ELSE @]

\* a join that records the member but not the names it joined with
ContinuationForgettingNames(st, w, msg) ==
  LET i == w[1]
      call == st.cs[i]
  IN
  CASE call.kind = "join" ->
         [st EXCEPT !.cs[i].state = "resolved", !.cs[i].value = msg,
                    !.cl.memberId = msg.member.memberId,
                    !.cl.teamId = msg.member.teamId]
    [] call.kind = "ask" /\ w[2] = "ack" ->
         waitForResponse([st EXCEPT !.cs[i].ack = msg], <<i, "answer">>, call.timeoutMs)
    [] OTHER ->
         [st EXCEPT !.cs[i].state = "resolved", !.cs[i].value = msg]

\* the code after the await of waiter w, which resolved with msg
Continuation(st, w, msg) ==
  LET i == w[1]
      call == st.cs[i]
  IN
  CASE call.kind = "join" ->
         [st EXCEPT !.cs[i].state = "resolved", !.cs[i].value = msg,
                    !.cl.memberId = msg.member.memberId,
                    !.cl.teamId = msg.member.teamId,
                    !.cl.teamName = call.teamName,
                    !.cl.displayName = call.displayName]
    [] call.kind = "ask" /\ w[2] = "ack" ->
         waitForResponse([st EXCEPT !.cs[i].ack = msg], <<i, "answer">>, call.timeoutMs)
    [] OTHER ->
         [st EXCEPT !.cs[i].state = "resolved", !.cs[i].value = msg]

RunContinuations(st, msg) ==
  LET r == st.resolved
      s1 == IF Len(r) >= 1 THEN Continuation(st, r[1], msg) ELSE st
      s2 == IF Len(r) >= 2 THEN Continuation(s1, r[2], msg) ELSE s1
  IN [s2 EXCEPT !.resolved = <<>>]

\* the listener waitForResponse installs: checkFilter of waiter w, before it
\* calls the original handler
checkFilter(st, w, msg) ==
  IF w # Base /\ Filter(st.cs, w, msg)
  THEN [st EXCEPT !.pr = MapDelete(@, w),
                  !.cs = ClearTimeout(@, w),
                  !.resolved = IF IsPending(st.cs, w) THEN Append(@, w) ELSE @]
  ELSE st

\* HubClient.resolvePendingRequest(message)
resolvePendingRequest(st, msg) ==
  IF st.pr = <<>> THEN st
  ELSE LET w == Head(st.pr) IN
       [st EXCEPT !.pr = Tail(@),
                  !.cs = ClearTimeout(@, w),
                  !.resolved = IF Filter(st.cs, w, msg) /\ IsPending(st.cs, w)
                               THEN Append(@, w) ELSE @]

\* the switch of HubClient.handleMessage: which observer the message invokes
Observers(msg) ==
  CASE msg.type = "QUESTION" -> <<"onQuestion">>
    [] msg.type = "ANSWER" -> <<"onAnswer">>
    [] msg.type = "MEMBER_JOINED" -> <<"onMemberJoined">>
    [] msg.type = "MEMBER_LEFT" -> <<"onMemberLeft">>
    [] msg.type = "ERROR" -> <<"onError">>
    [] OTHER -> <<>>

\* HubClient.handleMessage(data)
handleMessage(st, msg) ==
  resolvePendingRequest([st EXCEPT !.obs = @ \o Observers(msg)], msg)

\* waitForResponse adding its listener without removing the one before it:
\* the message reaches handleMessage once per listener
OnMessageKeepingListeners(st, w, msg) ==
  IF w = Base THEN RunContinuations(handleMessage(st, msg), msg)
  ELSE RunContinuations(handleMessage(handleMessage(checkFilter(st, w, msg), msg), msg),
                        msg)

\* the 'message' listener of a socket whose listener is w (Base: the one
\* connect() installed)
OnMessage(st, w, msg) ==
  RunContinuations(handleMessage(checkFilter(st, w, msg), msg), msg)

\* Two messages read from the socket in one chunk, their 'message' events
\* emitted in one tick: the listener handles both before any continuation of
\* an awaiting call runs, so the second message meets the listener and the
\* pendingRequests the first one left (a promise resolves once: a waiter the
\* first message resolved is not resolved again)
OnMessages(st, w, first, second) ==
  LET s1 == handleMessage(checkFilter(st, w, first), first)
      s2 == handleMessage(checkFilter([s1 EXCEPT !.resolved = <<>>], w, second), second)
      again == SelectSeq(s2.resolved,
                         LAMBDA v : \A n \in DOMAIN s1.resolved : s1.resolved[n] # v)
      s3 == RunContinuations([s2 EXCEPT !.resolved = s1.resolved], first)
  IN RunContinuations([s3 EXCEPT !.resolved = again], second)

\* ------------------------------------------------------------------------
\* Hub server
\* ------------------------------------------------------------------------
RECURSIVE Sends(_, _)
\* HubServer.send(ws, message), for a sequence of <<ws, message>>:
\* a message is written only to a socket whose readyState is OPEN
Sends(s, out) ==
  IF out = <<>> THEN s
  ELSE LET j == Head(out)[1]
           m == Head(out)[2]
           s1 == IF j \in DOMAIN s /\ s[j].hub = "open"
                 THEN [s EXCEPT ![j].inbox = Append(@, m)] ELSE s
       IN Sends(s1, Tail(out))

\* HubServer.getMemberInfo(memberId)
getMemberInfo(members, teams, memberId) ==
  IF memberId \in DOMAIN members
  THEN LET member == members[memberId] IN
       [memberId |-> memberId, teamId |-> member.teamId,
        teamName |-> IF Has(teams, member.teamId) THEN teams[member.teamId].name
                     ELSE "Unknown",
        displayName |-> member.displayName, status |-> member.status]
  ELSE [memberId |-> memberId, teamId |-> "", teamName |-> "Unknown",
        displayName |-> "Unknown", status |-> "OFFLINE"]

\* the connections a list of member ids maps to through memberToWs
\* (one entry per member id that has a socket)
WsOf(m2w, ids) ==
  LET withWs == SelectSeq(ids, LAMBDA id : Has(m2w, id)) IN
  [n \in 1..Len(withWs) |-> m2w[withWs[n]]]

\* HubServer.broadcastToTeam(teamId, excludeMemberId, message): the sends it makes
broadcastToTeam(teams, m2w, teamId, excludeMemberId, message) ==
  IF ~Has(teams, teamId) THEN <<>>
  ELSE LET others == SelectSeq(teams[teamId].memberIds,
                               LAMBDA id : id # excludeMemberId)
           targets == WsOf(m2w, others)
       IN [n \in 1..Len(targets) |-> <<targets[n], message>>]

\* generateMemberId(): an id no member has yet (the n-th join of connection k
\* gets 10 * k + n)
generateMemberId(members, k) ==
  10 * k + 1 + Cardinality({id \in DOMAIN members : id \div 10 = k})

\* a join that returns the member count it read before adding the member
JoinTeamCountingBefore(members, teams, memberId, teamName, displayName) ==
  IF Trim(teamName) = ""
  THEN [ok |-> FALSE, code |-> "VALIDATION_ERROR", message |-> "Team name cannot be empty"]
  ELSE IF Trim(displayName) = ""
  THEN [ok |-> FALSE, code |-> "VALIDATION_ERROR", message |-> "Display name cannot be empty"]
  ELSE LET teamId == createTeamId(teamName)
           teams1 == IF Has(teams, teamId) THEN teams
                     ELSE Put(teams, teamId, [id |-> teamId, name |-> Trim(teamName),
                                              memberIds |-> <<>>])
           member == [id |-> memberId, teamId |-> teamId,
                      displayName |-> Trim(displayName), status |-> "ONLINE",
                      lastActivityAt |-> 0]
           teams2 == [teams1 EXCEPT ![teamId].memberIds = Append(@, memberId)]
       IN [ok |-> TRUE, memberId |-> memberId, teamId |-> teamId,
           members |-> Put(members, memberId, member), teams |-> teams2,
           memberCount |-> Len(teams1[teamId].memberIds)]

\* JoinTeamUseCase.execute, up to the event: validation, getOrCreate, Member.create,
\* save, addMember, save
JoinTeam(members, teams, memberId, teamName, displayName) ==
  IF Trim(teamName) = ""
  THEN [ok |-> FALSE, code |-> "VALIDATION_ERROR", message |-> "Team name cannot be empty"]
  ELSE IF Trim(displayName) = ""
  THEN [ok |-> FALSE, code |-> "VALIDATION_ERROR", message |-> "Display name cannot be empty"]
  ELSE LET teamId == createTeamId(teamName)
           teams1 == IF Has(teams, teamId) THEN teams
                     ELSE Put(teams, teamId, [id |-> teamId, name |-> Trim(teamName),
                                              memberIds |-> <<>>])
           member == [id |-> memberId, teamId |-> teamId,
                      displayName |-> Trim(displayName), status |-> "ONLINE",
                      lastActivityAt |-> 0]
           teams2 == [teams1 EXCEPT ![teamId].memberIds = Append(@, memberId)]
       IN [ok |-> TRUE, memberId |-> memberId, teamId |-> teamId,
           members |-> Put(members, memberId, member), teams |-> teams2,
           memberCount |-> Len(teams2[teamId].memberIds)]

\* MessageContent.create(text, format): the text is valid
ValidContent(text) == Trim(text) # "" /\ Length(Trim(text)) <= MaxMessageLength
\* the message of the ValidationError it throws otherwise
ContentError(text) ==
  IF Trim(text) = "" THEN "Message content cannot be empty"
  ELSE "Message content exceeds maximum length of 50000 characters"

\* Member.recordActivity (lastActivityAt counts the activities recorded)
recordActivity(member) ==
  [member EXCEPT !.lastActivityAt = @ + 1,
                 !.status = IF @ = "IDLE" THEN "ONLINE" ELSE @]

\* a question that can be answered whatever its status
canBeAnsweredAlways(question) == TRUE

\* Question.canBeAnswered
canBeAnswered(question) == question.status = "PENDING"

\* Question.markAsAnswered(answeredByMemberId), at instant `now`
markAsAnswered(question, answeredByMemberId, now) ==
  IF ~canBeAnswered(question)
  THEN [ok |-> FALSE, code |-> "QUESTION_ALREADY_ANSWERED", question |-> question]
  ELSE [ok |-> TRUE, code |-> "",
        question |-> [question EXCEPT !.status = "ANSWERED", !.answeredAt = now,
                                      !.answeredByMemberId = answeredByMemberId]]

\* a timeout that overrides any status
markAsTimedOutWhatever(question) == [question EXCEPT !.status = "TIMEOUT"]

\* Question.markAsTimedOut
markAsTimedOut(question) ==
  IF question.status = "PENDING" THEN [question EXCEPT !.status = "TIMEOUT"] ELSE question

\* Question.markAsCancelled
markAsCancelled(question) ==
  IF question.status = "PENDING" THEN [question EXCEPT !.status = "CANCELLED"]
  ELSE question

\* AskQuestionUseCase.execute, up to the event
\* new Date() when a question is created: the time of the question created
\* last, or a later one (two questions can be created in the same millisecond)
Now(questions) ==
  IF questions = <<>> THEN {1}
  ELSE {questions[Len(questions)].createdAt, questions[Len(questions)].createdAt + 1}

\* an ask that stores the question whatever its content
AskQuestionAnyContent(members, teams, questions, fromMemberId, toTeamName, content, format, now) ==
  LET targetTeamId == createTeamId(toTeamName) IN
  IF fromMemberId \notin DOMAIN members
  THEN [ok |-> FALSE, code |-> "MEMBER_NOT_FOUND", message |-> "Member not found"]
  ELSE IF ~Has(teams, targetTeamId)
  THEN [ok |-> FALSE, code |-> "TEAM_NOT_FOUND", message |-> "Team not found"]
  ELSE IF members[fromMemberId].teamId = targetTeamId
  THEN [ok |-> FALSE, code |-> "VALIDATION_ERROR",
        message |-> "Cannot ask question to your own team"]
  ELSE LET questionId == Len(questions) + 1
           question == [id |-> questionId, fromMemberId |-> fromMemberId,
                        toTeamId |-> targetTeamId, content |-> Trim(content),
                        format |-> format, status |-> "PENDING",
                        createdAt |-> now, answeredAt |-> NoId,
                        answeredByMemberId |-> NoId]
       IN [ok |-> TRUE, questionId |-> questionId, toTeamId |-> targetTeamId,
           status |-> question.status,
           questions |-> Append(questions, question),
           members |-> [members EXCEPT ![fromMemberId] = recordActivity(@)]]

\* an ask that compares the asker's team with the name as it was given
AskQuestionComparingName(members, teams, questions, fromMemberId, toTeamName, content, format, now) ==
  LET targetTeamId == createTeamId(toTeamName) IN
  IF fromMemberId \notin DOMAIN members
  THEN [ok |-> FALSE, code |-> "MEMBER_NOT_FOUND", message |-> "Member not found"]
  ELSE IF ~Has(teams, targetTeamId)
  THEN [ok |-> FALSE, code |-> "TEAM_NOT_FOUND", message |-> "Team not found"]
  ELSE IF members[fromMemberId].teamId = toTeamName
  THEN [ok |-> FALSE, code |-> "VALIDATION_ERROR",
        message |-> "Cannot ask question to your own team"]
  ELSE IF ~ValidContent(content)
  THEN [ok |-> FALSE, code |-> "VALIDATION_ERROR", message |-> ContentError(content)]
  ELSE LET questionId == Len(questions) + 1
           question == [id |-> questionId, fromMemberId |-> fromMemberId,
                        toTeamId |-> targetTeamId, content |-> Trim(content),
                        format |-> format, status |-> "PENDING",
                        createdAt |-> now, answeredAt |-> NoId,
                        answeredByMemberId |-> NoId]
       IN [ok |-> TRUE, questionId |-> questionId, toTeamId |-> targetTeamId,
           status |-> question.status,
           questions |-> Append(questions, question),
           members |-> [members EXCEPT ![fromMemberId] = recordActivity(@)]]

AskQuestion(members, teams, questions, fromMemberId, toTeamName, content, format, now) ==
  LET targetTeamId == createTeamId(toTeamName) IN
  IF fromMemberId \notin DOMAIN members
  THEN [ok |-> FALSE, code |-> "MEMBER_NOT_FOUND", message |-> "Member not found"]
  ELSE IF ~Has(teams, targetTeamId)
  THEN [ok |-> FALSE, code |-> "TEAM_NOT_FOUND", message |-> "Team not found"]
  ELSE IF members[fromMemberId].teamId = targetTeamId
  THEN [ok |-> FALSE, code |-> "VALIDATION_ERROR",
        message |-> "Cannot ask question to your own team"]
  ELSE IF ~ValidContent(content)
  THEN [ok |-> FALSE, code |-> "VALIDATION_ERROR", message |-> ContentError(content)]
  ELSE LET questionId == Len(questions) + 1
           question == [id |-> questionId, fromMemberId |-> fromMemberId,
                        toTeamId |-> targetTeamId, content |-> Trim(content),
                        format |-> format, status |-> "PENDING",
                        createdAt |-> now, answeredAt |-> NoId,
                        answeredByMemberId |-> NoId]
       IN [ok |-> TRUE, questionId |-> questionId, toTeamId |-> targetTeamId,
           status |-> question.status,
           questions |-> Append(questions, question),
           members |-> [members EXCEPT ![fromMemberId] = recordActivity(@)]]

\* HubServer.deliverQuestion(question): the sends it makes
deliverQuestion(members, teams, m2w, question) ==
  IF ~Has(teams, question.toTeamId) \/ question.fromMemberId \notin DOMAIN members
  THEN <<>>
  ELSE LET targets == WsOf(m2w, teams[question.toTeamId].memberIds)
           message == [HubMsg("QUESTION") EXCEPT
                         !.questionId = question.id,
                         !.member = getMemberInfo(members, teams, question.fromMemberId),
                         !.content = question.content,
                         !.format = question.format]
       IN [n \in 1..Len(targets) |-> <<targets[n], message>>]

\* a reply that stores its answer before it validates the content
ReplyQuestionStoringFirst(members, questions, answers, questionId, fromMemberId, content, format) ==
  IF fromMemberId \notin DOMAIN members
  THEN [ok |-> FALSE, code |-> "MEMBER_NOT_FOUND", message |-> "Member not found"]
  ELSE IF questionId \notin DOMAIN questions
  THEN [ok |-> FALSE, code |-> "QUESTION_NOT_FOUND", message |-> "Question not found"]
  ELSE IF ~canBeAnswered(questions[questionId])
  THEN [ok |-> FALSE, code |-> "QUESTION_ALREADY_ANSWERED",
        message |-> "Question has already been answered"]
  ELSE LET answerId == Len(answers) + 1
           answer == [id |-> answerId, questionId |-> questionId,
                      fromMemberId |-> fromMemberId, content |-> Trim(content),
                      format |-> format]
           marked == markAsAnswered(questions[questionId], fromMemberId, answerId)
       IN [ok |-> TRUE, answerId |-> answerId,
           answers |-> Append(answers, answer),
           questions |-> [questions EXCEPT ![questionId] = marked.question],
           members |-> [members EXCEPT ![fromMemberId] = recordActivity(@)]]

\* a reply that saves its answer and never saves the question it marked
ReplyQuestionNotSavingQuestion(members, questions, answers, questionId, fromMemberId, content, format) ==
  IF fromMemberId \notin DOMAIN members
  THEN [ok |-> FALSE, code |-> "MEMBER_NOT_FOUND", message |-> "Member not found"]
  ELSE IF questionId \notin DOMAIN questions
  THEN [ok |-> FALSE, code |-> "QUESTION_NOT_FOUND", message |-> "Question not found"]
  ELSE IF questions[questionId].status # "PENDING"
  THEN [ok |-> FALSE, code |-> "QUESTION_ALREADY_ANSWERED",
        message |-> "Question has already been answered"]
  ELSE IF ~ValidContent(content)
  THEN [ok |-> FALSE, code |-> "VALIDATION_ERROR", message |-> ContentError(content)]
  ELSE [ok |-> TRUE, answerId |-> Len(answers) + 1,
        answers |-> Append(answers, [id |-> Len(answers) + 1, questionId |-> questionId,
                                     fromMemberId |-> fromMemberId,
                                     content |-> Trim(content), format |-> format]),
        questions |-> questions,
        members |-> [members EXCEPT ![fromMemberId] = recordActivity(@)]]

\* ReplyQuestionUseCase.execute, up to the event
ReplyQuestion(members, questions, answers, questionId, fromMemberId, content, format) ==
  IF fromMemberId \notin DOMAIN members
  THEN [ok |-> FALSE, code |-> "MEMBER_NOT_FOUND", message |-> "Member not found"]
  ELSE IF questionId \notin DOMAIN questions
  THEN [ok |-> FALSE, code |-> "QUESTION_NOT_FOUND", message |-> "Question not found"]
  ELSE IF ~canBeAnswered(questions[questionId])
  THEN [ok |-> FALSE, code |-> "QUESTION_ALREADY_ANSWERED",
        message |-> "Question has already been answered"]
  ELSE IF ~ValidContent(content)
  THEN [ok |-> FALSE, code |-> "VALIDATION_ERROR", message |-> ContentError(content)]
  ELSE LET answerId == Len(answers) + 1
           answer == [id |-> answerId, questionId |-> questionId,
                      fromMemberId |-> fromMemberId, content |-> Trim(content),
                      format |-> format]
           marked == markAsAnswered(questions[questionId], fromMemberId, answerId)
       IN IF ~marked.ok
          THEN [ok |-> FALSE, code |-> marked.code,
                message |-> "Question has already been answered"]
          ELSE [ok |-> TRUE, answerId |-> answerId,
                answers |-> Append(answers, answer),
                questions |-> [questions EXCEPT ![questionId] = marked.question],
                members |-> [members EXCEPT ![fromMemberId] = recordActivity(@)]]

\* InMemoryAnswerRepository.findByQuestionId: the first stored answer to the question
findByQuestionId(answers, questionId) ==
  LET hits == SelectSeq(answers, LAMBDA a : a.questionId = questionId) IN
  IF hits = <<>> THEN <<>> ELSE <<Head(hits)>>

\* a delivery that also hands the ANSWER to the member who gave it
deliverAnswerToBoth(members, teams, m2w, question, answer, answeredByMemberId) ==
  LET message == [HubMsg("ANSWER") EXCEPT
                    !.questionId = question.id,
                    !.member = getMemberInfo(members, teams, answeredByMemberId),
                    !.content = answer.content,
                    !.format = answer.format]
  IN [n \in 1..Len(WsOf(m2w, <<question.fromMemberId, answeredByMemberId>>)) |->
        <<WsOf(m2w, <<question.fromMemberId, answeredByMemberId>>)[n], message>>]

\* HubServer.deliverAnswer(question, answer, answeredByMemberId): the sends it makes
deliverAnswer(members, teams, m2w, question, answer, answeredByMemberId) ==
  IF ~Has(m2w, question.fromMemberId) THEN <<>>
  ELSE << <<m2w[question.fromMemberId],
            [HubMsg("ANSWER") EXCEPT
               !.questionId = question.id,
               !.member = getMemberInfo(members, teams, answeredByMemberId),
               !.content = answer.content,
               !.format = answer.format]>> >>

\* InMemoryQuestionRepository.findPendingByTeamId (a Map lists its values in
\* insertion order)
findPendingByTeamId(questions, teamId) ==
  SelectSeq(questions, LAMBDA q : q.toTeamId = teamId /\ q.status = "PENDING")

\* a sort that lists the oldest first
RECURSIVE sortOldestFirst(_, _)
sortOldestFirst(items, t) ==
  IF t = 0 THEN <<>>
  ELSE sortOldestFirst(items, t - 1) \o SelectSeq(items, LAMBDA q : q.createdAt = t)

\* Array.prototype.sort with (a, b) => b.createdAt - a.createdAt: a stable sort,
\* so items created at the same time keep their order; t is the latest time
RECURSIVE sortNewestFirst(_, _)
sortNewestFirst(items, t) ==
  IF t = 0 THEN <<>>
  ELSE SelectSeq(items, LAMBDA q : q.createdAt = t) \o sortNewestFirst(items, t - 1)

\* GetInboxUseCase.execute
GetInboxUseCase(members, teams, questions, memberId, teamId, includeAnswered) ==
  IF memberId \notin DOMAIN members
  THEN [ok |-> FALSE, code |-> "MEMBER_NOT_FOUND", message |-> "Member not found"]
  ELSE IF ~Has(teams, teamId)
  THEN [ok |-> FALSE, code |-> "TEAM_NOT_FOUND", message |-> "Team not found"]
  ELSE LET allQuestions == findPendingByTeamId(questions, teamId)
           chosen == IF includeAnswered THEN allQuestions
                     ELSE SelectSeq(allQuestions, LAMBDA q : q.status = "PENDING")
           questionItems == sortNewestFirst(chosen, Len(questions))
       IN [ok |-> TRUE, questions |-> questionItems, totalCount |-> Len(questionItems),
           pendingCount |-> Len(SelectSeq(questionItems, LAMBDA q : q.status = "PENDING"))]

\* the INBOX message handleGetInbox builds from what GetInboxUseCase returns
Inbox(result, requestId) ==
  LET items == [n \in 1..Len(result.questions) |->
                  [questionId |-> result.questions[n].id,
                   from |-> result.questions[n].fromMemberId,
                   content |-> result.questions[n].content,
                   format |-> result.questions[n].format,
                   status |-> result.questions[n].status]]
  IN [HubMsg("INBOX") EXCEPT
        !.questions = items,
        !.totalCount = result.totalCount,
        !.pendingCount = result.pendingCount,
        !.requestId = requestId]

\* a removal that leaves the member's status as it is
removeMemberKeepingStatus(members, teams, m2w, memberId, teamId) ==
  LET teams1 == IF Has(teams, teamId)
                THEN [teams EXCEPT ![teamId].memberIds = MapDelete(@, memberId)] ELSE teams
      out == broadcastToTeam(teams1, m2w, teamId, memberId,
                             [HubMsg("MEMBER_LEFT") EXCEPT !.memberId = memberId,
                                                           !.teamId = teamId])
  IN [members |-> members, teams |-> teams1, out |-> out]

\* HubServer.removeMember(memberId, teamId): repositories after it, and its sends
removeMember(members, teams, m2w, memberId, teamId) ==
  LET members1 == IF memberId \in DOMAIN members
                  THEN [members EXCEPT ![memberId].status = "OFFLINE"] ELSE members
      teams1 == IF Has(teams, teamId)
                THEN [teams EXCEPT ![teamId].memberIds = MapDelete(@, memberId)] ELSE teams
      out == broadcastToTeam(teams1, m2w, teamId, memberId,
                             [HubMsg("MEMBER_LEFT") EXCEPT !.memberId = memberId,
                                                           !.teamId = teamId])
  IN [members |-> members1, teams |-> teams1, out |-> out]

\* ------------------------------------------------------------------------
\* Sockets
\*   client: readyState as the client sees it ("open", "closing" after
\*           ws.close(), "closed" once its 'close' event has been handled)
\*   hub:    "open", or "closed" once the hub has handled its 'close' event
\*   listener: the client's 'message' listener (Base or a waiter's checkFilter)
\*   inbox / outbox: data in flight to the client / to the hub
\*   together: the first two messages of outbox reach the hub in one chunk
\* ------------------------------------------------------------------------
NewSocket(c) == [owner |-> c, client |-> "open", hub |-> "open", listener |-> Base,
                 inbox |-> <<>>, outbox |-> <<>>, closedBy |-> "none",
                 together |-> FALSE]

\* new WebSocket(url): the n-th socket of A is 2n - 1, that of B is 2n
NewWs(c, s) ==
  2 * Cardinality({k \in DOMAIN s : s[k].owner = c}) + (IF c = "A" THEN 1 ELSE 2)

\* HubClient.send(message)
send(s, cl, message) ==
  IF cl.ws # 0 /\ s[cl.ws].client = "open" /\ s[cl.ws].hub = "open"
  THEN [s EXCEPT ![cl.ws].outbox = Append(@, message)]
  ELSE s

\* this.ws.removeAllListeners('message'); this.ws.on('message', checkFilter)
Install(s, st) ==
  IF st.install # NoInstall THEN [s EXCEPT ![st.cl.ws].listener = st.install] ELSE s

Commit(c, st) ==
  /\ cli' = [cli EXCEPT ![c] = st.cl]
  /\ calls' = [calls EXCEPT ![c] = st.cs]
  /\ pendingRequests' = [pendingRequests EXCEPT ![c] = st.pr]

Use(what) == used' = [used EXCEPT ![what] = @ + 1]

\* the terminal's program makes its next call, which is `op`
Calls(c, op) ==
  /\ todo[c] # <<>>
  /\ Head(todo[c]).op = op
  /\ todo' = [todo EXCEPT ![c] = Tail(@)]

\* the hub's operator takes its next step, which is `op`
HubDoes(op) == "H" \in DOMAIN todo /\ Calls("H", op)

\* ------------------------------------------------------------------------
\* Hub client: the caller's operations
\* ------------------------------------------------------------------------
\* get isConnected(): this.ws !== null && this.ws.readyState === WebSocket.OPEN
isConnected(c) == cli[c].ws # 0 /\ sock[cli[c].ws].client = "open"

\* HubClient.handleDisconnect(): the fields after it
handleDisconnect(c, cl) ==
  LET shouldReconnect == ReconnectOption(c) # "false"
      maxAttempts == MaxRetries
  IN IF cl.isClosing THEN cl
     ELSE IF shouldReconnect /\ cl.reconnectAttempts < maxAttempts
     THEN [cl EXCEPT !.reconnectAttempts = @ + 1, !.reconnectTimers = @ + 1]
     ELSE cl

\* HubClient.connect(), the socket's 'open' event and HubServer.handleConnection
connect(c, st, s) ==
  LET ws == NewWs(c, s) IN
  [st |-> [st EXCEPT !.cl.ws = ws, !.cl.reconnectAttempts = 0, !.cl.pinging = TRUE],
   sock |-> Put(s, ws, NewSocket(c)),
   ws |-> ws]

\* HubClient.join(teamName, displayName)
join(st, s, teamName, displayName, replay) ==
  LET i == Len(st.cs) + 1
      call == [NewCall("join", i) EXCEPT !.teamName = teamName,
                                         !.displayName = displayName,
                                         !.replay = replay]
      s1 == send(s, st.cl, [ClientMsg("JOIN") EXCEPT !.teamName = teamName,
                                                     !.displayName = displayName])
      st1 == waitForResponse([st EXCEPT !.cs = Append(@, call)], <<i, "ack">>,
                             JoinTimeoutMs)
  IN [st |-> st1, sock |-> Install(s1, st1)]

\* HubClient.connect() while the hub does not listen: the socket's 'error'
\* event and its 'close' event
connectRefused(c, st, s) ==
  LET ws == NewWs(c, s) IN
  [st |-> [st EXCEPT !.cl = handleDisconnect(c, [@ EXCEPT !.ws = ws])],
   sock |-> Put(s, ws, [NewSocket(c) EXCEPT !.client = "closed", !.hub = "closed",
                                            !.closedBy = "refused"]),
   ws |-> ws]

NoAttempts == [made |-> 0, failed |-> 0, told |-> 0]

Connect(c) ==
  /\ Calls(c, "connect")
  /\ IF wss = "listening"
     THEN LET r == connect(c, Bundle(c), sock) IN
          /\ Commit(c, r.st)
          /\ sock' = r.sock
          /\ clients' = Put(clients, r.ws, [memberId |-> NoId, teamId |-> ""])
          /\ lastPing' = Put(lastPing, r.ws, "recent")
          /\ reconnection' = [reconnection EXCEPT ![c] = NoAttempts]
          /\ UNCHANGED observed
     ELSE LET r == connectRefused(c, Bundle(c), sock) IN
          /\ Commit(c, r.st)
          /\ sock' = r.sock
          /\ observed' = [observed EXCEPT ![c] = <<"onError", "onDisconnected">>]
          /\ UNCHANGED <<clients, lastPing, reconnection>>
  /\ UNCHANGED <<memberToWs, memberRepository, teamRepository,
                 questionRepository, answerRepository, used, wss>>

Join(c) ==
  /\ Calls(c, "join")
  /\ LET r == join(Bundle(c), sock, Head(todo[c]).name, DisplayNameOf(c), FALSE) IN
     /\ Commit(c, r.st)
     /\ sock' = r.sock
  /\ UNCHANGED <<observed, reconnection, hubVars, used>>

\* HubClient.ask(toTeam, content, format, timeoutMs), up to its first await
Ask(c, payload) ==
  /\ Calls(c, "ask")
  /\ LET i == Len(calls[c]) + 1
         call == [NewCall("ask", i) EXCEPT !.timeoutMs = Head(todo[c]).timeoutMs]
         s1 == send(sock, cli[c], [ClientMsg("ASK") EXCEPT
                                     !.toTeam = Head(todo[c]).name,
                                     !.content = payload[1],
                                     !.format = payload[2], !.requestId = i])
         st0 == Bundle(c)
         st1 == waitForResponse([st0 EXCEPT !.cs = Append(@, call)], <<i, "ack">>,
                                AckTimeoutMs)
     IN /\ Commit(c, st1)
        /\ sock' = Install(s1, st1)
  /\ UNCHANGED <<observed, reconnection, hubVars, used>>

\* HubClient.getInbox()
GetInbox(c) ==
  /\ Calls(c, "getInbox")
  /\ LET i == Len(calls[c]) + 1
         s1 == send(sock, cli[c], [ClientMsg("GET_INBOX") EXCEPT !.requestId = i])
         st0 == Bundle(c)
         st1 == waitForResponse([st0 EXCEPT !.cs = Append(@, NewCall("getInbox", i))],
                                <<i, "ack">>, InboxTimeoutMs)
     IN /\ Commit(c, st1)
        /\ sock' = Install(s1, st1)
  /\ UNCHANGED <<observed, reconnection, hubVars, used>>

\* HubClient.reply(questionId, content, format): the next call of the
\* terminal's program, or one of the MaxReplies replies made at any time
Reply(c, questionId, payload) ==
  /\ sock' = send(sock, cli[c], [ClientMsg("REPLY") EXCEPT
                                   !.questionId = questionId, !.content = payload[1],
                                   !.format = payload[2]])
  /\ \/ /\ used.replies < MaxReplies
        /\ questionId \in DOMAIN questionRepository
        /\ payload \in Payloads
        /\ sock' # sock
        /\ Use("replies")
        /\ UNCHANGED todo
     \/ /\ Calls(c, "reply")
        /\ questionId = Head(todo[c]).questionId
        /\ payload = <<Head(todo[c]).content, "markdown">>
        /\ UNCHANGED used
  /\ UNCHANGED <<clientVars, hubVars>>

\* the callback of startPingInterval
Ping(c) ==
  /\ Calls(c, "ping")
  /\ cli[c].pinging
  /\ sock' = send(sock, cli[c], ClientMsg("PING"))
  /\ UNCHANGED <<clientVars, hubVars, used>>

\* A peer writes a message on the terminal's open socket without going through
\* HubClient: the hub's 'message' listener gets whatever data a socket carries
SendRaw(c) ==
  /\ Calls(c, "raw")
  /\ sock' = send(sock, cli[c], Head(todo[c]).message)
  /\ UNCHANGED <<clientVars, hubVars, used>>

\* A peer writes two messages back to back: when nothing else is in flight,
\* the hub's socket reads both in one chunk
SendPipelined(c) ==
  /\ Calls(c, "pipeline")
  /\ LET ws == cli[c].ws
         s1 == send(sock, cli[c], Head(todo[c]).message)
         s2 == send(s1, cli[c], Head(todo[c]).next)
     IN sock' = IF ws # 0 /\ sock[ws].outbox = <<>> /\ Len(s2[ws].outbox) = 2
                THEN [s2 EXCEPT ![ws].together = TRUE] ELSE s2
  /\ UNCHANGED <<clientVars, hubVars, used>>

\* HubClient.disconnect()
Disconnect(c) ==
  /\ Calls(c, "disconnect")
  /\ LET cl == cli[c]
         s1 == IF cl.memberId # NoId THEN send(sock, cl, ClientMsg("LEAVE")) ELSE sock
         s2 == IF cl.ws # 0 /\ s1[cl.ws].client = "open"
               THEN [s1 EXCEPT ![cl.ws].client = "closing"] ELSE s1
     IN /\ sock' = s2
        /\ cli' = [cli EXCEPT ![c].ws = 0, ![c].isClosing = FALSE]
  /\ UNCHANGED <<calls, pendingRequests, observed, reconnection, hubVars, used>>

\* the timeoutMs of call i's current wait have elapsed: no earlier wait of
\* the client with a timeout at most as long is still running
Elapsing(c, i) ==
  /\ i \in DOMAIN calls[c]
  /\ calls[c][i].state = "pending"
  /\ ~calls[c][i].overdue
  /\ \A j \in DOMAIN calls[c] :
       (calls[c][j].state = "pending" /\ ~calls[c][j].overdue
        /\ calls[c][j].since < calls[c][i].since)
       => calls[c][j].limit > calls[c][i].limit

\* the setTimeout callback of waitForResponse
timedOut(st, i) ==
  [st EXCEPT !.pr = MapDelete(@, <<i, st.cs[i].stage>>),
             !.cs[i].state = "rejected",
             !.cs[i].error = "Request timed out",
             !.cs[i].timer = "fired"]

\* timeoutMs after call i's current wait began: its timer fires unless it was cleared
Elapse(c, i) ==
  /\ Elapsing(c, i)
  /\ IF calls[c][i].timer = "armed"
     THEN Commit(c, timedOut(Bundle(c), i))
     ELSE /\ calls' = [calls EXCEPT ![c][i].overdue = TRUE]
          /\ UNCHANGED <<cli, pendingRequests>>
  /\ UNCHANGED <<observed, reconnection, sock, hubVars, todo, used>>

\* the socket's 'message' event
Deliver(k) ==
  /\ k \in DOMAIN sock
  /\ sock[k].inbox # <<>>
  /\ sock[k].client # "closed"
  /\ LET c == sock[k].owner
         msg == Head(sock[k].inbox)
         st == OnMessage(Bundle(c), sock[k].listener, msg)
     IN /\ Commit(c, st)
        /\ observed' = [observed EXCEPT ![c] = st.obs]
        /\ sock' = Install([sock EXCEPT ![k].inbox = Tail(@)], st)
  /\ UNCHANGED <<reconnection, hubVars, todo, used>>

\* two 'message' events of the socket in one tick
DeliverTogether(k) ==
  /\ k \in DOMAIN sock
  /\ Len(sock[k].inbox) >= 2
  /\ sock[k].client # "closed"
  /\ LET c == sock[k].owner
         st == OnMessages(Bundle(c), sock[k].listener, sock[k].inbox[1], sock[k].inbox[2])
     IN /\ Commit(c, st)
        /\ observed' = [observed EXCEPT ![c] = st.obs]
        /\ sock' = Install([sock EXCEPT ![k].inbox = Tail(Tail(@))], st)
  /\ UNCHANGED <<reconnection, hubVars, todo, used>>

\* the socket's 'close' event on the client
ClientClose(k) ==
  /\ k \in DOMAIN sock
  /\ sock[k].client # "closed"
  /\ sock[k].hub = "closed"
  /\ sock[k].inbox = <<>>
  /\ LET c == sock[k].owner IN
     /\ cli' = [cli EXCEPT ![c] = handleDisconnect(c, @)]
     /\ observed' = [observed EXCEPT ![c] = <<"onDisconnected">>]
  /\ sock' = [sock EXCEPT ![k].client = "closed",
                          ![k].closedBy = IF sock[k].client = "closing"
                                          THEN "caller" ELSE "remote"]
  /\ UNCHANGED <<calls, pendingRequests, reconnection, hubVars, todo, used>>

\* the setTimeout callback of handleDisconnect: connect(), then the replayed
\* join, or the catch that tells onError
Reconnect(c) ==
  /\ cli[c].reconnectTimers > 0
  /\ LET st0 == [Bundle(c) EXCEPT !.cl.reconnectTimers = @ - 1] IN
     IF wss = "listening"
     THEN LET r1 == connect(c, st0, sock)
              s1 == r1.sock
              r2 == IF r1.st.cl.teamName # "" /\ r1.st.cl.displayName # ""
                    THEN join(r1.st, s1, r1.st.cl.teamName, r1.st.cl.displayName, TRUE)
                    ELSE [st |-> r1.st, sock |-> s1]
          IN /\ Commit(c, r2.st)
             /\ sock' = r2.sock
             /\ clients' = Put(clients, r1.ws, [memberId |-> NoId, teamId |-> ""])
             /\ lastPing' = Put(lastPing, r1.ws, "recent")
             /\ reconnection' = [reconnection EXCEPT ![c] = NoAttempts]
             /\ UNCHANGED observed
     ELSE LET r == connectRefused(c, st0, sock)
              obs == <<"onError", "onDisconnected", "onError">>
          IN /\ Commit(c, r.st)
             /\ sock' = r.sock
             /\ observed' = [observed EXCEPT ![c] = obs]
             /\ reconnection' =
                  [reconnection EXCEPT
                     ![c].made = @ + 1, ![c].failed = @ + 1,
                     ![c].told = @ + (IF \E n \in DOMAIN obs : obs[n] = "onError"
                                      THEN 1 ELSE 0)]
             /\ UNCHANGED <<clients, lastPing>>
  /\ UNCHANGED <<memberToWs, memberRepository, teamRepository,
                 questionRepository, answerRepository, todo, used, wss>>

\* ------------------------------------------------------------------------
\* Hub server: one action per message type of HubServer.handleMessage
\* ------------------------------------------------------------------------
Receives(k, type) ==
  /\ k \in DOMAIN sock
  /\ Has(clients, k)
  /\ sock[k].hub = "open"
  /\ sock[k].outbox # <<>>
  /\ Head(sock[k].outbox).type = type

Popped(k) == [sock EXCEPT ![k].outbox = Tail(@), ![k].together = FALSE]

\* HubServer.handleMessage, after parseClientMessage: connection.lastPing = new Date()
Touched(k) == [lastPing EXCEPT ![k] = "recent"]

\* case 'JOIN': HubServer.handleJoin
HandleJoin(k) ==
  /\ Receives(k, "JOIN")
  /\ LET m == Head(sock[k].outbox)
         r == JoinTeam(memberRepository, teamRepository,
                       generateMemberId(memberRepository, k), m.teamName, m.displayName)
     IN IF r.ok
        THEN LET info == getMemberInfo(r.members, r.teams, r.memberId)
                 joined == broadcastToTeam(r.teams, memberToWs, r.teamId, r.memberId,
                                           [HubMsg("MEMBER_JOINED") EXCEPT !.member = info])
                 reply == [HubMsg("JOINED") EXCEPT !.member = info,
                                                   !.memberCount = r.memberCount]
             IN /\ memberRepository' = r.members
                /\ teamRepository' = r.teams
                /\ clients' = [clients EXCEPT ![k] = [memberId |-> r.memberId,
                                                      teamId |-> r.teamId]]
                /\ memberToWs' = Put(memberToWs, r.memberId, k)
                /\ sock' = Sends(Popped(k), joined \o << <<k, reply>> >>)
        ELSE /\ sock' = Sends(Popped(k),
                              << <<k, createErrorMessage("JOIN_FAILED", r.message, NoId)>> >>)
             /\ UNCHANGED <<memberRepository, teamRepository, clients, memberToWs>>
  /\ lastPing' = Touched(k)
  /\ UNCHANGED <<clientVars, questionRepository, answerRepository, todo, used, wss>>

\* case 'LEAVE': HubServer.handleLeave
HandleLeave(k) ==
  /\ Receives(k, "LEAVE")
  /\ LET connection == clients[k] IN
     IF connection.memberId # NoId /\ connection.teamId # ""
     THEN LET r == removeMember(memberRepository, teamRepository, memberToWs,
                                connection.memberId, connection.teamId)
              connection1 == [memberId |-> NoId, teamId |-> ""]
          IN /\ memberRepository' = r.members
             /\ teamRepository' = r.teams
             /\ clients' = [clients EXCEPT ![k] = connection1]
             /\ sock' = Sends(Popped(k),
                              r.out \o << <<k, [HubMsg("LEFT") EXCEPT
                                                  !.memberId = connection1.memberId]>> >>)
     ELSE /\ sock' = Sends(Popped(k),
                           << <<k, [HubMsg("LEFT") EXCEPT
                                      !.memberId = connection.memberId]>> >>)
          /\ UNCHANGED <<memberRepository, teamRepository, clients>>
  /\ lastPing' = Touched(k)
  /\ UNCHANGED <<clientVars, memberToWs, questionRepository, answerRepository, todo, used,
                 wss>>

\* case 'ASK': HubServer.handleAsk
HandleAsk(k) ==
  /\ Receives(k, "ASK")
  /\ \E now \in Now(questionRepository) :
     LET m == Head(sock[k].outbox)
         connection == clients[k]
     IN IF connection.memberId = NoId
        THEN /\ sock' = Sends(Popped(k),
                  << <<k, createErrorMessage("NOT_JOINED", "Must join a team first",
                                             m.requestId)>> >>)
             /\ UNCHANGED <<memberRepository, questionRepository>>
        ELSE LET r == AskQuestion(memberRepository, teamRepository, questionRepository,
                                  connection.memberId, m.toTeam, m.content, m.format,
                                  now)
             IN IF r.ok
                THEN LET pushes == deliverQuestion(r.members, teamRepository, memberToWs,
                                                   r.questions[r.questionId])
                         sent == [HubMsg("QUESTION_SENT") EXCEPT
                                    !.questionId = r.questionId, !.teamId = r.toTeamId,
                                    !.status = r.status, !.requestId = m.requestId]
                     IN /\ questionRepository' = r.questions
                        /\ memberRepository' = r.members
                        /\ sock' = Sends(Popped(k), pushes \o << <<k, sent>> >>)
                ELSE /\ sock' = Sends(Popped(k),
                          << <<k, createErrorMessage("ASK_FAILED", r.message,
                                                     m.requestId)>> >>)
                     /\ UNCHANGED <<memberRepository, questionRepository>>
  /\ lastPing' = Touched(k)
  /\ UNCHANGED <<clientVars, clients, memberToWs, teamRepository, answerRepository,
                 todo, used, wss>>

\* case 'REPLY': HubServer.handleReply
HandleReply(k) ==
  /\ Receives(k, "REPLY")
  /\ LET m == Head(sock[k].outbox)
         connection == clients[k]
     IN IF connection.memberId = NoId
        THEN /\ sock' = Sends(Popped(k),
                  << <<k, createErrorMessage("NOT_JOINED", "Must join a team first",
                                             NoId)>> >>)
             /\ UNCHANGED <<memberRepository, questionRepository, answerRepository>>
        ELSE LET r == ReplyQuestion(memberRepository, questionRepository,
                                    answerRepository, m.questionId, connection.memberId,
                                    m.content, m.format)
             IN IF r.ok
                THEN LET found == findByQuestionId(r.answers, m.questionId)
                         out == IF found = <<>> THEN <<>>
                                ELSE deliverAnswer(r.members, teamRepository, memberToWs,
                                                   r.questions[m.questionId], found[1],
                                                   connection.memberId)
                     IN /\ answerRepository' = r.answers
                        /\ questionRepository' = r.questions
                        /\ memberRepository' = r.members
                        /\ sock' = Sends(Popped(k), out)
                ELSE /\ sock' = Sends(Popped(k),
                          << <<k, createErrorMessage("REPLY_FAILED", r.message, NoId)>> >>)
                     /\ UNCHANGED <<memberRepository, questionRepository,
                                    answerRepository>>
  /\ lastPing' = Touched(k)
  /\ UNCHANGED <<clientVars, clients, memberToWs, teamRepository, todo, used, wss>>

\* a handler that looks for the inbox of a connection that has not joined
HandleGetInboxUnchecked(k) ==
  /\ Receives(k, "GET_INBOX")
  /\ LET m == Head(sock[k].outbox)
         connection == clients[k]
         r == GetInboxUseCase(memberRepository, teamRepository, questionRepository,
                              connection.memberId, connection.teamId, FALSE)
     IN IF r.ok
        THEN sock' = Sends(Popped(k), << <<k, Inbox(r, m.requestId)>> >>)
        ELSE sock' = Sends(Popped(k),
                  << <<k, createErrorMessage("INBOX_FAILED", r.message, m.requestId)>> >>)
  /\ lastPing' = Touched(k)
  /\ UNCHANGED <<clientVars, clients, memberToWs, memberRepository, teamRepository,
                 questionRepository, answerRepository, wss, todo, used>>

\* case 'GET_INBOX': HubServer.handleGetInbox
HandleGetInbox(k) ==
  /\ Receives(k, "GET_INBOX")
  /\ LET m == Head(sock[k].outbox)
         connection == clients[k]
     IN IF connection.memberId = NoId \/ connection.teamId = ""
        THEN sock' = Sends(Popped(k),
                  << <<k, createErrorMessage("NOT_JOINED", "Must join a team first",
                                             m.requestId)>> >>)
        ELSE LET r == GetInboxUseCase(memberRepository, teamRepository,
                                      questionRepository, connection.memberId,
                                      connection.teamId, FALSE)
             IN IF r.ok
                THEN sock' = Sends(Popped(k), << <<k, Inbox(r, m.requestId)>> >>)
                ELSE sock' = Sends(Popped(k),
                          << <<k, createErrorMessage("INBOX_FAILED", r.message,
                                                     m.requestId)>> >>)
  /\ lastPing' = Touched(k)
  /\ UNCHANGED <<clientVars, clients, memberToWs, memberRepository, teamRepository,
                 questionRepository, answerRepository, wss, todo, used>>

\* parseClientMessage(data): JSON.parse, then validateClientMessage
ValidTypes == {"JOIN", "LEAVE", "ASK", "REPLY", "PING", "GET_INBOX"}
parseClientMessage(data) ==
  IF data = NotJson THEN [ok |-> FALSE, message |-> "Unexpected end of JSON input"]
  ELSE IF data.type = "" THEN [ok |-> FALSE, message |-> "Message must have a type"]
  ELSE IF data.type \notin ValidTypes THEN [ok |-> FALSE, message |-> "Invalid message type"]
  ELSE [ok |-> TRUE, message |-> data]

\* a handler that closes the connection whose message it cannot parse
HandleInvalidClosing(k) ==
  /\ k \in DOMAIN sock
  /\ Has(clients, k)
  /\ sock[k].hub = "open"
  /\ sock[k].outbox # <<>>
  /\ ~parseClientMessage(Head(sock[k].outbox)).ok
  /\ sock' = [sock EXCEPT ![k].outbox = Tail(@), ![k].hub = "closed",
                          ![k].together = FALSE]
  /\ clients' = Del(clients, k)
  /\ lastPing' = Del(lastPing, k)
  /\ UNCHANGED <<clientVars, memberToWs, memberRepository, teamRepository,
                 questionRepository, answerRepository, todo, used, wss>>

\* HubServer.handleMessage, the catch: parseClientMessage threw
HandleInvalid(k) ==
  /\ k \in DOMAIN sock
  /\ Has(clients, k)
  /\ sock[k].hub = "open"
  /\ sock[k].outbox # <<>>
  /\ LET parsed == parseClientMessage(Head(sock[k].outbox)) IN
     /\ ~parsed.ok
     /\ sock' = Sends(Popped(k),
                      << <<k, createErrorMessage("INVALID_MESSAGE", parsed.message, NoId)>> >>)
  /\ UNCHANGED <<clientVars, hubVars, todo, used>>

\* The 'message' listener is async and nothing queues the messages of a
\* connection: when two messages are read in one chunk and the socket emits
\* both events in one tick, the handler of the second runs while handleJoin
\* for the first is suspended at `await this.joinTeamUseCase.execute(...)`.
\* On a connection not yet bound to a member the second handler has no await
\* of its own and completes there: its reply is sent and connection.memberId
\* is still undefined. The JOIN stays at the head of outbox until HandleJoin
\* completes it.
HandleAhead(k) ==
  /\ k \in DOMAIN sock
  /\ Has(clients, k)
  /\ sock[k].hub = "open"
  /\ sock[k].together
  /\ Len(sock[k].outbox) >= 2
  /\ Head(sock[k].outbox).type = "JOIN"
  /\ clients[k].memberId = NoId
  /\ LET m == sock[k].outbox[2]
         parsed == parseClientMessage(m)
         rest == [sock EXCEPT ![k].outbox = <<Head(@)>> \o Tail(Tail(@)),
                              ![k].together = FALSE]
         notJoined == createErrorMessage("NOT_JOINED", "Must join a team first",
                                         IF m.type = "REPLY" THEN NoId ELSE m.requestId)
     IN /\ m.type # "JOIN"
        /\ sock' = Sends(rest,
                     << <<k, IF ~parsed.ok
                             THEN createErrorMessage("INVALID_MESSAGE", parsed.message, NoId)
                             ELSE IF m.type = "PING" THEN HubMsg("PONG")
                             ELSE IF m.type = "LEAVE"
                             THEN [HubMsg("LEFT") EXCEPT !.memberId = clients[k].memberId]
                             ELSE notJoined>> >>)
        /\ lastPing' = IF parsed.ok THEN Touched(k) ELSE lastPing
  /\ UNCHANGED <<clientVars, clients, memberToWs, memberRepository, teamRepository,
                 questionRepository, answerRepository, wss, todo, used>>

\* case 'PING'
HandlePing(k) ==
  /\ Receives(k, "PING")
  /\ sock' = Sends(Popped(k), << <<k, HubMsg("PONG")>> >>)
  /\ lastPing' = Touched(k)
  /\ UNCHANGED <<clientVars, clients, memberToWs, memberRepository, teamRepository,
                 questionRepository, answerRepository, wss, todo, used>>

\* HubServer.handleDisconnect(ws) for connection k, once its socket is `closed`
hubDisconnect(k, closed) ==
  /\ LET connection == clients[k] IN
     IF connection.memberId # NoId /\ connection.teamId # ""
     THEN LET r == removeMember(memberRepository, teamRepository, memberToWs,
                                connection.memberId, connection.teamId)
          IN /\ memberRepository' = r.members
             /\ teamRepository' = r.teams
             /\ memberToWs' = Del(memberToWs, connection.memberId)
             /\ sock' = Sends(closed, r.out)
     ELSE /\ sock' = closed
          /\ UNCHANGED <<memberRepository, teamRepository, memberToWs>>
  /\ clients' = Del(clients, k)
  /\ lastPing' = Del(lastPing, k)

\* the socket's 'close' event on the hub, after the client closed it or after
\* the heartbeat terminated it
HubClose(k) ==
  /\ k \in DOMAIN sock
  /\ Has(clients, k)
  /\ \/ sock[k].hub = "open" /\ sock[k].client = "closing" /\ sock[k].outbox = <<>>
     \/ sock[k].hub = "closed"
  /\ hubDisconnect(k, [sock EXCEPT ![k].hub = "closed"])
  /\ UNCHANGED <<clientVars, questionRepository, answerRepository, todo, used, wss>>

\* config.hub.clientTimeout passes without the hub handling a message of
\* connection k: now - connection.lastPing > config.hub.clientTimeout from here on
FallSilent(k) ==
  /\ HubDoes("silence")
  /\ wss = "listening"
  /\ Has(clients, k)
  /\ sock[k].hub = "open"
  /\ lastPing[k] = "recent"
  /\ lastPing' = [lastPing EXCEPT ![k] = "old"]
  /\ UNCHANGED <<clientVars, sock, clients, memberToWs, memberRepository,
                 teamRepository, questionRepository, answerRepository, used, wss>>

\* the setInterval callback of startHeartbeat: ws.terminate() for every
\* connection whose lastPing is older than clientTimeout; the 'close' events
\* that follow are HubClose
Heartbeat ==
  /\ HubDoes("terminate")
  /\ wss = "listening"
  /\ sock' = [k \in DOMAIN sock |->
                IF Has(clients, k) /\ lastPing[k] = "old"
                THEN [sock[k] EXCEPT !.hub = "closed", !.outbox = <<>>,
                                     !.together = FALSE]
                ELSE sock[k]]
  /\ UNCHANGED <<clientVars, clients, memberToWs, memberRepository, teamRepository,
                 questionRepository, answerRepository, used, wss, lastPing>>

\* HubServer.stop(): every connection is closed, clients and memberToWs are
\* cleared, the intervals are cleared and the server stops listening
Stop ==
  /\ HubDoes("stop")
  /\ wss = "listening"
  /\ sock' = [k \in DOMAIN sock |->
                IF Has(clients, k)
                THEN [sock[k] EXCEPT !.hub = "closed", !.outbox = <<>>,
                                     !.together = FALSE]
                ELSE sock[k]]
  /\ clients' = EmptyMap
  /\ memberToWs' = EmptyMap
  /\ lastPing' = EmptyMap
  /\ wss' = "null"
  /\ UNCHANGED <<clientVars, memberRepository, teamRepository, questionRepository,
                 answerRepository, used>>

\* a sweep that marks every old question, whatever its status
markTimedOutAnyStatus(questions, oldest) ==
  [q \in DOMAIN questions |->
     IF questions[q].createdAt <= questions[oldest].createdAt
     THEN [questions[q] EXCEPT !.status = "TIMEOUT"] ELSE questions[q]]

\* InMemoryQuestionRepository.markTimedOut(olderThanMs), called when the
\* questions created no later than question `oldest` are older than olderThanMs
markTimedOut(questions, oldest) ==
  [q \in DOMAIN questions |->
     IF questions[q].status = "PENDING"
        /\ questions[q].createdAt <= questions[oldest].createdAt
     THEN markAsTimedOut(questions[q]) ELSE questions[q]]

\* now - question.createdAt.getTime() > olderThanMs can be true of question q.
\* An ask call that still waits for its QUESTION_SENT, which is in flight, sent
\* its ASK less than AckTimeoutMs ago, and one that still waits, within its
\* timeoutMs, for the answer got its QUESTION_SENT within AckTimeoutMs of
\* sending the ASK: q is younger than AckTimeoutMs, or AckTimeoutMs + timeoutMs.
CanBeOlderThan(q, olderThanMs) ==
  \A c \in Client : \A i \in DOMAIN calls[c] :
    /\ (/\ calls[c][i].kind = "ask" /\ calls[c][i].stage = "answer"
        /\ calls[c][i].state = "pending" /\ ~calls[c][i].overdue
        /\ calls[c][i].ack.questionId = q)
       => AckTimeoutMs + calls[c][i].limit > olderThanMs
    /\ (/\ calls[c][i].kind = "ask" /\ calls[c][i].stage = "ack"
        /\ calls[c][i].state = "pending" /\ ~calls[c][i].overdue
        /\ \E k \in DOMAIN sock : \E n \in DOMAIN sock[k].inbox :
             /\ sock[k].owner = c
             /\ sock[k].inbox[n].type = "QUESTION_SENT"
             /\ sock[k].inbox[n].questionId = q
             /\ sock[k].inbox[n].requestId = calls[c][i].requestId)
       => AckTimeoutMs > olderThanMs

\* the setInterval callback of startTimeoutCheck, at a sweep that finds something
Sweep(oldest) ==
  /\ wss = "listening"
  /\ oldest \in DOMAIN questionRepository
  /\ questionRepository[oldest].status = "PENDING"
  /\ \A q \in DOMAIN questionRepository :
       (/\ questionRepository[q].status = "PENDING"
        /\ questionRepository[q].createdAt <= questionRepository[oldest].createdAt)
       => CanBeOlderThan(q, DefaultTimeoutMs)
  /\ questionRepository' = markTimedOut(questionRepository, oldest)
  /\ UNCHANGED <<clientVars, sock, clients, memberToWs, memberRepository,
                 teamRepository, answerRepository, todo, used, wss, lastPing>>

\* what the next call of the terminal's program says
Says(c) == IF todo[c] = <<>> THEN AskPayload ELSE <<Head(todo[c]).content, "plain">>
\* the question ids and the payloads a reply is made with
Answerable == DOMAIN questionRepository \cup {NoQuestion}
Answers ==
  Payloads \cup {<<text, "markdown">> : text \in {"a", " ", Oversized}}

Next ==
  \/ \E c \in Client : Connect(c)
  \/ \E c \in Client : Disconnect(c)
  \/ \E c \in Client : Join(c)
  \/ \E c \in Client : Ask(c, Says(c))
  \/ \E c \in Client : GetInbox(c)
  \/ \E c \in Client, q \in Answerable, p \in Answers : Reply(c, q, p)
  \/ \E c \in Client : Ping(c)
  \/ \E c \in Client : SendRaw(c)
  \/ \E c \in Client : SendPipelined(c)
  \/ \E c \in Client : \E i \in DOMAIN calls[c] : Elapse(c, i)
  \/ \E k \in DOMAIN sock : Deliver(k)
  \/ \E k \in DOMAIN sock : DeliverTogether(k)
  \/ \E k \in DOMAIN sock : ClientClose(k)
  \/ \E c \in Client : Reconnect(c)
  \/ \E k \in DOMAIN sock : HandleJoin(k)
  \/ \E k \in DOMAIN sock : HandleLeave(k)
  \/ \E k \in DOMAIN sock : HandleAsk(k)
  \/ \E k \in DOMAIN sock : HandleReply(k)
  \/ \E k \in DOMAIN sock : HandleGetInbox(k)
  \/ \E k \in DOMAIN sock : HandlePing(k)
  \/ \E k \in DOMAIN sock : HandleInvalid(k)
  \/ \E k \in DOMAIN sock : HandleAhead(k)
  \/ \E k \in DOMAIN sock : HubClose(k)
  \/ \E q \in DOMAIN questionRepository : Sweep(q)
  \/ \E k \in DOMAIN sock : FallSilent(k)
  \/ Heartbeat
  \/ Stop

Spec == Init /\ [][Next]_vars

\* ------------------------------------------------------------------------
\* Properties
\* ------------------------------------------------------------------------
\* the calls of a client that are asks / getInboxes
Asks(c) == {i \in DOMAIN calls[c] : calls[c][i].kind = "ask"}
Inboxes(c) == {i \in DOMAIN calls[c] : calls[c][i].kind = "getInbox"}
\* the waiters of a client whose promise has not settled
Waiting(c) == {<<i, calls[c][i].stage>> : i \in {j \in DOMAIN calls[c] :
                                                  calls[c][j].state = "pending"}}
\* this step is the 'message' event of socket k
Delivers(k) == sock[k].inbox # <<>> /\ sock'[k].inbox = Tail(sock[k].inbox)
\* waiter w of client c is resolved by this step
Resolves(c, w) ==
  \/ calls'[c][w[1]].state = "resolved"
  \/ calls'[c][w[1]].stage # w[2]

\* C1: an ask whose QUESTION_SENT has arrived is never still pending once its
\* timeoutMs have elapsed, whatever other messages arrived meanwhile.
C1_AskNeverPendingPastTimeout ==
  \A c \in Client : \A i \in Asks(c) :
    (calls[c][i].stage = "answer" /\ calls[c][i].state = "pending")
    => ~calls[c][i].overdue

\* C2: an ask that resolves does so with the ANSWER to its own question: the
\* question id of its QUESTION_SENT and the content and format of the reply
\* the hub stored for that question.
C2_AskResolvesWithItsOwnAnswer ==
  \A c \in Client : \A i \in Asks(c) :
    calls[c][i].state = "resolved"
    => /\ calls[c][i].value.type = "ANSWER"
       /\ calls[c][i].value.questionId = calls[c][i].ack.questionId
       /\ \E n \in DOMAIN answerRepository :
            /\ answerRepository[n].questionId = calls[c][i].ack.questionId
            /\ answerRepository[n].content = calls[c][i].value.content
            /\ answerRepository[n].format = calls[c][i].value.format

\* C3: an inbound message resolves at most one waiter, and only one whose
\* filter matches it; a waiter whose filter does not match stays registered in
\* pendingRequests with its timer armed.
C3_MessageResolvesOneMatchingWaiter ==
  [][\A k \in DOMAIN sock : Delivers(k) =>
       LET c == sock[k].owner
           msg == Head(sock[k].inbox)
           resolved == {w \in Waiting(c) : Resolves(c, w)}
       IN /\ Cardinality(resolved) <= 1
          /\ \A w \in resolved : Filter(calls[c], w, msg)
          /\ \A n \in DOMAIN pendingRequests[c] :
               LET w == pendingRequests[c][n] IN
               ~Filter(calls[c], w, msg)
               => /\ \E m \in DOMAIN pendingRequests'[c] : pendingRequests'[c][m] = w
                  /\ calls'[c][w[1]].timer = "armed"]_vars

\* C4: an ANSWER that arrives after its ask has timed out is ignored: it
\* changes the outcome of no call of the client, neither the timed-out one nor
\* any other pending one (no call resolves, rejects or moves on to its next wait).
C4_LateAnswerIsIgnored ==
  [][\A k \in DOMAIN sock : Delivers(k) =>
       LET c == sock[k].owner
           msg == Head(sock[k].inbox)
       IN (/\ msg.type = "ANSWER"
           /\ \E i \in Asks(c) : /\ calls[c][i].ack.questionId = msg.questionId
                                 /\ calls[c][i].state = "rejected")
          => \A j \in DOMAIN calls[c] :
               /\ calls'[c][j].state = calls[c][j].state
               /\ calls'[c][j].stage = calls[c][j].stage
               /\ calls'[c][j].value = calls[c][j].value
               /\ calls'[c][j].error = calls[c][j].error]_vars

\* C5: asks that are in flight together to a team that never replies each
\* reject at their own deadline: once a later deadline has passed and that ask
\* has rejected, no ask with an earlier deadline is still pending.
C5_ConcurrentAsksRejectIndependently ==
  answerRepository = <<>> =>
    \A c \in Client : \A i \in Asks(c) : \A j \in Asks(c) :
      (/\ calls[c][i].stage = "answer" /\ calls[c][j].stage = "answer"
       /\ calls[c][i].since < calls[c][j].since
       /\ calls[c][i].limit <= calls[c][j].limit
       /\ calls[c][j].state = "rejected")
      => calls[c][i].state = "rejected"

\* C6: a call waiting for its acknowledgement (JOINED, QUESTION_SENT, INBOX)
\* is never still pending once its bound (30 s, 5 s, 5 s) has elapsed, also
\* when the hub answered the request with an ERROR.
C6_AckWaitIsBounded ==
  \A c \in Client : \A i \in DOMAIN calls[c] :
    (calls[c][i].stage = "ack" /\ calls[c][i].state = "pending")
    => ~calls[c][i].overdue

\* C7: the error of an ask that failed waiting for QUESTION_SENT differs from
\* the error of an ask that failed waiting for the answer.
C7_AckFailureIsDistinguishable ==
  \A c \in Client : \A i \in Asks(c) : \A j \in Asks(c) :
    (/\ calls[c][i].state = "rejected" /\ calls[c][i].stage = "ack"
     /\ calls[c][j].state = "rejected" /\ calls[c][j].stage = "answer")
    => calls[c][i].error # calls[c][j].error

\* C8: a getInbox call resolves only with an INBOX message that carries the
\* call's own requestId.
C8_InboxResolvesWithOwnRequest ==
  \A c \in Client : \A i \in Inboxes(c) :
    calls[c][i].state = "resolved"
    => /\ calls[c][i].value.type = "INBOX"
       /\ calls[c][i].value.requestId = calls[c][i].requestId

\* two getInbox calls that were pending together have both resolved
C8_Witness ==
  \E c \in Client : \E i \in Inboxes(c) : \E j \in Inboxes(c) :
    /\ i < j
    /\ calls[c][i].state = "resolved"
    /\ calls[c][j].state = "resolved"

\* C9: an inbound QUESTION, ANSWER, MEMBER_JOINED, MEMBER_LEFT or ERROR
\* invokes the observer of its type exactly once, and no other observer.
C9_ObserverInvokedOnce ==
  [][\A k \in DOMAIN sock : Delivers(k) =>
       LET c == sock[k].owner
           type == Head(sock[k].inbox).type
       IN /\ type = "QUESTION" => observed'[c] = <<"onQuestion">>
          /\ type = "ANSWER" => observed'[c] = <<"onAnswer">>
          /\ type = "MEMBER_JOINED" => observed'[c] = <<"onMemberJoined">>
          /\ type = "MEMBER_LEFT" => observed'[c] = <<"onMemberLeft">>
          /\ type = "ERROR" => observed'[c] = <<"onError">>]_vars

\* an ANSWER was observed by a client that has two calls pending
C9_Witness ==
  \E c \in Client :
    /\ observed[c] = <<"onAnswer">>
    /\ Cardinality(Waiting(c)) >= 2

\* C10: after a disconnect() the caller invoked, the client has no reconnect
\* scheduled and has sent no replayed JOIN, although reconnect is enabled.
C10_DisconnectIsFinal ==
  \A c \in Client :
    (\E k \in DOMAIN sock : sock[k].owner = c /\ sock[k].closedBy = "caller")
    => /\ cli[c].reconnectTimers = 0
       /\ \A i \in DOMAIN calls[c] : ~calls[c][i].replay

\* C11: a client never makes more than maxReconnectAttempts reconnection
\* attempts in a row without a successful open between them; once that many
\* have failed, no further attempt is scheduled and onError has been told of
\* each failure.
C11_ReconnectionIsBounded ==
  \A c \in Client :
    /\ reconnection[c].made <= MaxRetries
    /\ reconnection[c].failed >= MaxRetries
       => /\ cli[c].reconnectTimers = 0
          /\ reconnection[c].told = reconnection[c].failed

\* the calls of a client that are joins which succeeded
Joined(c) == {i \in DOMAIN calls[c] : calls[c][i].kind = "join"
                                      /\ calls[c][i].state = "resolved"}
\* this step is a reconnect of client c that opens a socket
Reconnects(c) ==
  /\ cli'[c].reconnectTimers < cli[c].reconnectTimers
  /\ cli'[c].ws \in DOMAIN sock' /\ sock'[cli'[c].ws].client = "open"

\* C12: a successful reconnect sends a JOIN with the team name and display
\* name of the join that succeeded earlier, and nothing if no join had
\* succeeded; when the replayed join resolves, the client's member id and team
\* id are those of the JOINED that answered it.
C12_ReconnectReplaysJoin ==
  [][\A c \in Client :
       /\ Reconnects(c) =>
            IF Joined(c) # {}
            THEN \E i \in Joined(c) :
                   sock'[cli'[c].ws].outbox =
                     <<[ClientMsg("JOIN") EXCEPT !.teamName = calls[c][i].teamName,
                                                 !.displayName = calls[c][i].displayName]>>
            ELSE /\ sock'[cli'[c].ws].outbox = <<>>
                 /\ calls'[c] = calls[c]
       /\ \A k \in DOMAIN sock : \A i \in DOMAIN calls[c] :
            (/\ Delivers(k) /\ sock[k].owner = c
             /\ calls[c][i].replay /\ calls[c][i].state = "pending"
             /\ calls'[c][i].state = "resolved")
            => LET msg == Head(sock[k].inbox) IN
               /\ msg.type = "JOINED"
               /\ cli'[c].memberId = msg.member.memberId
               /\ cli'[c].teamId = msg.member.teamId
               /\ Has(clients, k) /\ clients[k].memberId = msg.member.memberId]_vars

\* after the hub dropped its connection, a client's replayed join has resolved
\* and the client carries the member id of that JOINED
C12_Witness ==
  \E c \in Client : \E i \in DOMAIN calls[c] : \E k \in DOMAIN sock :
    /\ sock[k].owner = c /\ sock[k].closedBy = "remote"
    /\ calls[c][i].replay /\ calls[c][i].state = "resolved"
    /\ cli[c].memberId = calls[c][i].value.member.memberId
    /\ cli[c].memberId # calls[c][1].value.member.memberId

Terminal == {"ANSWERED", "TIMEOUT", "CANCELLED"}
\* the question with another status
Being(question, status) == [question EXCEPT !.status = status]
\* the lifecycle fields of two versions of a question are the same
SameOutcome(q1, q2) ==
  /\ q1.status = q2.status
  /\ q1.answeredAt = q2.answeredAt
  /\ q1.answeredByMemberId = q2.answeredByMemberId

\* C13: once a question is ANSWERED, TIMEOUT or CANCELLED, no step of the hub
\* (REPLY, timeout sweep) changes its status, answeredAt or answeredByMemberId;
\* on such a question markAsTimedOut and markAsCancelled change nothing and
\* markAsAnswered fails with QuestionAlreadyAnswered.
C13_TerminalStatusIsAbsorbing ==
  [][\A q \in DOMAIN questionRepository :
       LET question == questionRepository[q] IN
       /\ question.status \in Terminal
          => /\ q \in DOMAIN questionRepository'
             /\ SameOutcome(questionRepository'[q], question)
       /\ \A status \in Terminal : \A m \in DOMAIN memberRepository :
            LET t == Being(question, status) IN
            /\ markAsTimedOut(t) = t
            /\ markAsCancelled(t) = t
            /\ ~markAsAnswered(t, m, Len(answerRepository) + 1).ok
            /\ markAsAnswered(t, m, Len(answerRepository) + 1).code
                 = "QUESTION_ALREADY_ANSWERED"
            /\ markAsAnswered(t, m, Len(answerRepository) + 1).question = t]_vars

\* a REPLY to an answered question was refused
C13_Witness ==
  \E q \in DOMAIN questionRepository : \E k \in DOMAIN sock :
    /\ questionRepository[q].status = "ANSWERED"
    /\ \E n \in DOMAIN sock[k].inbox :
         /\ sock[k].inbox[n].code = "REPLY_FAILED"
         /\ sock[k].inbox[n].message = "Question has already been answered"

\* C14: the answer store never holds two answers to the same question,
\* whatever the order of the REPLY messages of different connections and of the
\* timeout sweeps.
C14_OneAnswerPerQuestion ==
  \A a \in DOMAIN answerRepository : \A b \in DOMAIN answerRepository :
    answerRepository[a].questionId = answerRepository[b].questionId => a = b

\* a question has its answer, and the REPLY of another connection to the same
\* question was refused
C14_Witness ==
  \E a \in DOMAIN answerRepository : \E k \in DOMAIN sock :
    /\ Has(clients, k)
    /\ clients[k].memberId \notin {NoId, answerRepository[a].fromMemberId}
    /\ questionRepository[answerRepository[a].questionId].status = "ANSWERED"
    /\ \E n \in DOMAIN sock[k].inbox :
         /\ sock[k].inbox[n].code = "REPLY_FAILED"
         /\ sock[k].inbox[n].message = "Question has already been answered"

\* this step is the hub handling the first message of connection k, of this type
Handles(k, type) ==
  /\ Has(clients, k) /\ Has(clients', k)
  /\ sock[k].hub = "open" /\ sock'[k].hub = "open"
  /\ sock[k].outbox # <<>>
  /\ Head(sock[k].outbox).type = type
  /\ sock'[k].outbox = Tail(sock[k].outbox)
\* the messages this step pushes to connection j
Pushed(j) ==
  IF Len(sock'[j].inbox) > Len(sock[j].inbox)
  THEN SubSeq(sock'[j].inbox, Len(sock[j].inbox) + 1, Len(sock'[j].inbox))
  ELSE <<>>
\* a member id that no member has
Stranger == 999
\* the content is empty or longer than the maximum
BadContent(text) ==
  LET chars == TrimEnd(TrimStart(Chars(text))) IN
  chars = <<>> \/ text = Oversized

\* C15: a REPLY that must fail (replier not a known member, question unknown,
\* question not PENDING, content empty or oversized) stores no answer, leaves
\* every question as it was and pushes no ANSWER: the hub only answers the
\* replier with an ERROR.  ReplyQuestion for an unknown member fails with
\* MemberNotFound.
C15_FailingReplyHasNoEffect ==
  [][\A k \in DOMAIN sock : Handles(k, "REPLY") =>
       LET m == Head(sock[k].outbox)
           replier == clients[k].memberId
           fails == \/ replier \notin DOMAIN memberRepository
                    \/ m.questionId \notin DOMAIN questionRepository
                    \/ questionRepository[m.questionId].status # "PENDING"
                    \/ BadContent(m.content)
           unknown == ReplyQuestion(memberRepository, questionRepository,
                                    answerRepository, m.questionId, Stranger,
                                    m.content, m.format)
       IN /\ fails =>
               /\ answerRepository' = answerRepository
               /\ questionRepository' = questionRepository
               /\ memberRepository' = memberRepository
               /\ \A j \in DOMAIN sock :
                    \A n \in DOMAIN Pushed(j) :
                      j = k /\ Pushed(j)[n].type = "ERROR"
               /\ Pushed(k) # <<>>
          /\ ~unknown.ok /\ unknown.code = "MEMBER_NOT_FOUND"]_vars

\* the hub refused a reply with oversized content to a question that is still
\* PENDING and has no answer
C15_Witness ==
  \E k \in DOMAIN sock : \E n \in DOMAIN sock[k].inbox :
    /\ sock[k].inbox[n].code = "REPLY_FAILED"
    /\ sock[k].inbox[n].message = ContentError(Oversized)
    /\ Len(questionRepository) = 1
    /\ questionRepository[1].status = "PENDING"
    /\ answerRepository = <<>>

\* the string has a character that is not a space
NonEmpty(text) == TrimEnd(TrimStart(Chars(text))) # <<>>
\* the number of members of a team, 0 for a team that does not exist
MemberCount(teams, teamId) == IF Has(teams, teamId) THEN Len(teams[teamId].memberIds) ELSE 0

TeamNames == {"", " ", "x", "X", "y", "Y", " y ", " Y ", "1x"}
CasePairs == {{"x", "X"}, {"y", "Y"}}
\* two names that differ at most in letter case and surrounding whitespace
SameButCase(a, b) ==
  LET ca == TrimEnd(TrimStart(Chars(a)))
      cb == TrimEnd(TrimStart(Chars(b)))
  IN /\ Len(ca) = Len(cb)
     /\ \A n \in 1..Len(ca) : ca[n] = cb[n] \/ {ca[n], cb[n]} \in CasePairs

\* normalizing the name twice gives what normalizing it once gives, and every
\* name that differs from it only in case or surrounding whitespace gets its id
Idempotent(name) ==
  /\ createTeamId(createTeamId(name)) = createTeamId(name)
  /\ \A other \in TeamNames : SameButCase(name, other) => createTeamId(other) = createTeamId(name)

\* C17: normalizing a team id twice gives what normalizing it once gives, and
\* names that differ only in letter case or surrounding whitespace get the
\* same id; the team store never holds two teams whose ids differ only so, a
\* JOIN under such a variant of an existing team's name joins that team and
\* creates none, and an ASK under such a variant is addressed to that team.
C17_TeamIdNormalization ==
  [][/\ \A k \in DOMAIN sock :
          \/ Handles(k, "JOIN") /\ Idempotent(Head(sock[k].outbox).teamName)
          \/ Handles(k, "ASK") /\ Idempotent(Head(sock[k].outbox).toTeam)
          \/ ~Handles(k, "JOIN") /\ ~Handles(k, "ASK")
     /\ \A t, u \in DOMAIN teamRepository' : SameButCase(t, u) => t = u
     /\ \A k \in DOMAIN sock : \A t \in DOMAIN teamRepository :
         /\ (/\ Handles(k, "JOIN")
             /\ NonEmpty(Head(sock[k].outbox).displayName)
             /\ SameButCase(t, Head(sock[k].outbox).teamName))
            => /\ DOMAIN teamRepository' = DOMAIN teamRepository
               /\ clients'[k].teamId = t
               /\ MemberCount(teamRepository', t) = MemberCount(teamRepository, t) + 1
         /\ (/\ Handles(k, "ASK")
             /\ clients[k].memberId \in DOMAIN memberRepository
             /\ clients[k].teamId # t
             /\ ~BadContent(Head(sock[k].outbox).content)
             /\ SameButCase(t, Head(sock[k].outbox).toTeam))
            => /\ Len(questionRepository') = Len(questionRepository) + 1
               /\ questionRepository'[Len(questionRepository')].toTeamId = t]_vars

\* the question asked to " Y " is stored for team "y", which was created by
\* a join to " y ", and the only teams are "x" and "y"
C17_Witness ==
  /\ todo.A = <<>> /\ todo.B = <<>>
  /\ DOMAIN teamRepository = {"x", "y"}
  /\ \E q \in DOMAIN questionRepository :
       /\ questionRepository[q].toTeamId = "y"
       /\ memberRepository[questionRepository[q].fromMemberId].teamId = "x"
  /\ \E k \in DOMAIN sock : \E n \in DOMAIN sock[k].inbox :
       /\ sock[k].inbox[n].type = "JOINED"
       /\ sock[k].inbox[n].member.teamName = "y"
       /\ sock[k].inbox[n].member.teamId = "y"

\* C18: a team name whose normalized id does not match ^[a-z][a-z0-9-]*$ is
\* rejected: no team with such an id is ever in the team store, and no
\* connection is ever told it joined such a team.
C18_InvalidTeamNameRejected ==
  /\ \A t \in DOMAIN teamRepository : isValid(t)
  /\ \A k \in DOMAIN sock : \A n \in DOMAIN sock[k].inbox :
       sock[k].inbox[n].type = "JOINED" => isValid(sock[k].inbox[n].member.teamId)

\* the member of connection k is in the member store and in a team of the
\* team store whose id is the name but for case and surrounding whitespace
AsksOwnTeam(k, name) ==
  /\ clients[k].memberId \in DOMAIN memberRepository
  /\ LET own == memberRepository[clients[k].memberId].teamId IN
     /\ Has(teamRepository, own)
     /\ SameButCase(own, name)

\* C19: an ASK of a member to its own team, under any letter case of the
\* team's name and with a good, an empty or an oversized content, fails with
\* the validation error "Cannot ask question to your own team": no question
\* is stored, none is pushed, and the asker gets an ERROR with that message.
C19_AskToOwnTeamFails ==
  [][\A k \in DOMAIN sock :
       (Handles(k, "ASK") /\ AsksOwnTeam(k, Head(sock[k].outbox).toTeam))
       => LET m == Head(sock[k].outbox)
              r == AskQuestion(memberRepository, teamRepository, questionRepository,
                               clients[k].memberId, m.toTeam, m.content, m.format, 1)
          IN /\ ~r.ok /\ r.code = "VALIDATION_ERROR"
             /\ questionRepository' = questionRepository
             /\ \A j \in DOMAIN sock : j # k => Pushed(j) = <<>>
             /\ Len(Pushed(k)) = 1
             /\ Pushed(k)[1].type = "ERROR"
             /\ Pushed(k)[1].message = "Cannot ask question to your own team"
             /\ Pushed(k)[1].requestId = m.requestId]_vars

\* the terminal asked its own team three times, the last time with an
\* oversized content, was refused each time, and no question is stored
C19_Witness ==
  /\ questionRepository = <<>>
  /\ \E k \in DOMAIN sock :
       /\ Len(sock[k].inbox) >= 3
       /\ \A n \in Len(sock[k].inbox) - 2 .. Len(sock[k].inbox) :
            /\ sock[k].inbox[n].type = "ERROR"
            /\ sock[k].inbox[n].message = "Cannot ask question to your own team"

\* C20: an ASK that must fail (the asker is not a known member, no team has
\* the normalized name, the team is the asker's own, or the content is empty
\* or oversized) stores no question, pushes no QUESTION, records no activity
\* of any member, and is answered with exactly one ERROR and no
\* QUESTION_SENT.  AskQuestion for an unknown member fails with
\* MEMBER_NOT_FOUND whatever the rest of its input.
C20_FailingAskHasNoEffect ==
  [][\A k \in DOMAIN sock : Handles(k, "ASK") =>
       LET m == Head(sock[k].outbox)
           asker == clients[k].memberId
           fails == \/ asker \notin DOMAIN memberRepository
                    \/ ~\E t \in DOMAIN teamRepository : SameButCase(t, m.toTeam)
                    \/ SameButCase(memberRepository[asker].teamId, m.toTeam)
                    \/ BadContent(m.content)
           unknown == AskQuestion(memberRepository, teamRepository, questionRepository,
                                  Stranger, m.toTeam, m.content, m.format, 1)
       IN /\ fails =>
               /\ questionRepository' = questionRepository
               /\ memberRepository' = memberRepository
               /\ \A j \in DOMAIN sock : j # k => Pushed(j) = <<>>
               /\ Len(Pushed(k)) = 1
               /\ Pushed(k)[1].type = "ERROR"
               /\ Pushed(k)[1].requestId = m.requestId
          /\ ~unknown.ok /\ unknown.code = "MEMBER_NOT_FOUND"]_vars

\* the hub refused an ASK with an oversized content that a joined member sent
\* to an existing team with an online member: no question is stored and the
\* asker has recorded no activity
C20_Witness ==
  /\ questionRepository = <<>>
  /\ Has(teamRepository, "y") /\ teamRepository["y"].memberIds # <<>>
  /\ \E k \in DOMAIN sock : \E n \in DOMAIN sock[k].inbox :
       /\ sock[k].inbox[n].type = "ERROR"
       /\ sock[k].inbox[n].code = "ASK_FAILED"
       /\ sock[k].inbox[n].message = ContentError(Oversized)
       /\ clients[k].memberId \in DOMAIN memberRepository
       /\ memberRepository[clients[k].memberId].lastActivityAt = 0

\* C21: an ASK, a REPLY or a GET_INBOX on a connection that has no bound
\* member is answered with one NOT_JOINED error and changes nothing: the
\* stores and the connection table stay as they were and nothing is pushed
\* to any other connection.
C21_UnjoinedIsRefused ==
  [][\A k \in DOMAIN sock : \A type \in {"ASK", "REPLY", "GET_INBOX"} :
       (Handles(k, type) /\ clients[k].memberId = NoId)
       => /\ UNCHANGED <<memberRepository, teamRepository, questionRepository,
                         answerRepository, clients, memberToWs>>
          /\ \A j \in DOMAIN sock : j # k => Pushed(j) = <<>>
          /\ Len(Pushed(k)) = 1
          /\ Pushed(k)[1].type = "ERROR"
          /\ Pushed(k)[1].code = "NOT_JOINED"]_vars

\* a connection that joined and then left was told LEFT and then, three
\* times, NOT_JOINED, while its former teammate is still joined
C21_Witness ==
  \E k \in DOMAIN sock : \E n \in DOMAIN sock[k].inbox :
    /\ n + 3 <= Len(sock[k].inbox)
    /\ sock[k].inbox[n].type = "LEFT"
    /\ \A i \in 1..3 : sock[k].inbox[n + i].code = "NOT_JOINED"
    /\ \E j \in DOMAIN clients : j # k /\ clients[j].memberId # NoId

\* the hub takes the message at the head of what connection k has sent
Takes(k) ==
  /\ Has(clients, k)
  /\ sock[k].hub = "open"
  /\ sock[k].outbox # <<>>
  /\ sock'[k].outbox = Tail(sock[k].outbox)
  /\ todo' = todo
\* the message at the head of what connection k has sent cannot be handled:
\* it does not parse, has no known type, or its use case must fail
MustFail(k) ==
  LET m == Head(sock[k].outbox)
      member == clients[k].memberId
  IN \/ m = NotJson
     \/ m.type \notin {"JOIN", "LEAVE", "ASK", "REPLY", "PING", "GET_INBOX"}
     \/ m.type = "JOIN" /\ (~NonEmpty(m.teamName) \/ ~NonEmpty(m.displayName))
     \/ m.type \in {"ASK", "REPLY", "GET_INBOX"} /\ member \notin DOMAIN memberRepository
     \/ /\ m.type = "ASK"
        /\ \/ ~\E t \in DOMAIN teamRepository : SameButCase(t, m.toTeam)
           \/ SameButCase(memberRepository[member].teamId, m.toTeam)
           \/ BadContent(m.content)
     \/ /\ m.type = "REPLY"
        /\ \/ m.questionId \notin DOMAIN questionRepository
           \/ questionRepository[m.questionId].status # "PENDING"
           \/ BadContent(m.content)

\* C22: handling a client message never closes its connection: the
\* connection stays in the hub's connection table with its socket open, and
\* when the message cannot be handled (not JSON, no known type, a use case
\* that fails) the connection's member and team stay as they were and the
\* sender gets exactly one ERROR.
C22_FailureKeepsConnection ==
  [][\A k \in DOMAIN sock : Takes(k) =>
       /\ Has(clients', k)
       /\ sock'[k].hub = "open"
       /\ MustFail(k) =>
            /\ clients'[k] = clients[k]
            /\ Len(Pushed(k)) = 1
            /\ Pushed(k)[1].type = "ERROR"]_vars

\* a joined connection was told INVALID_MESSAGE three times in a row and is
\* still open and bound to its member
C22_Witness ==
  \E k \in DOMAIN clients :
    /\ sock[k].hub = "open"
    /\ clients[k].memberId \in DOMAIN memberRepository
    /\ Len(sock[k].inbox) >= 3
    /\ \A n \in Len(sock[k].inbox) - 2 .. Len(sock[k].inbox) :
         sock[k].inbox[n].code = "INVALID_MESSAGE"

\* C23: the ERROR the hub sends when a use case fails carries the domain
\* error's code: TEAM_NOT_FOUND for an ASK to a team that does not exist,
\* VALIDATION_ERROR for an ASK to one's own team or with an empty or oversized
\* content, QUESTION_NOT_FOUND for a REPLY to an unknown question,
\* QUESTION_ALREADY_ANSWERED for a REPLY to a question that is not PENDING,
\* VALIDATION_ERROR for a REPLY with an empty or oversized content.
C23_ErrorCarriesDomainCode ==
  [][\A k \in DOMAIN sock :
       LET m == Head(sock[k].outbox)
           member == clients[k].memberId
           code == Pushed(k)[1].code
       IN /\ (Handles(k, "ASK") /\ member \in DOMAIN memberRepository) =>
               IF ~\E t \in DOMAIN teamRepository : SameButCase(t, m.toTeam)
               THEN code = "TEAM_NOT_FOUND"
               ELSE (SameButCase(memberRepository[member].teamId, m.toTeam)
                     \/ BadContent(m.content)) => code = "VALIDATION_ERROR"
          /\ (Handles(k, "REPLY") /\ member \in DOMAIN memberRepository) =>
               IF m.questionId \notin DOMAIN questionRepository
               THEN code = "QUESTION_NOT_FOUND"
               ELSE IF questionRepository[m.questionId].status # "PENDING"
               THEN code = "QUESTION_ALREADY_ANSWERED"
               ELSE BadContent(m.content) => code = "VALIDATION_ERROR"]_vars

\* the ids of the members of a team, none for a team that does not exist
MemberIds(teams, teamId) ==
  IF Has(teams, teamId)
  THEN {teams[teamId].memberIds[n] : n \in DOMAIN teams[teamId].memberIds} ELSE {}
\* the messages of a type that this step pushes to connection j
PushedOf(j, type) == SelectSeq(Pushed(j), LAMBDA msg : msg.type = type)
\* connection k, bound to a member, sends LEAVE or is closed (the hub itself
\* keeps running)
Departs(k) ==
  /\ Has(clients, k)
  /\ clients[k].memberId # NoId /\ clients[k].teamId # ""
  /\ wss' = wss
  /\ Handles(k, "LEAVE") \/ ~Has(clients', k)

C25_LeftNamesTheMember ==
  [][\A k \in DOMAIN sock :
       (Handles(k, "LEAVE") /\ clients[k].memberId # NoId)
       => /\ Len(PushedOf(k, "LEFT")) = 1
          /\ PushedOf(k, "LEFT")[1].memberId = clients[k].memberId]_vars

\* the ids of the questions addressed to a team, and of the listed questions
AddressedTo(teamId) ==
  {q \in DOMAIN questionRepository : questionRepository[q].toTeamId = teamId}
Listed(items) == {items[n].id : n \in DOMAIN items}

\* C26: for a member and its team, GetInbox with includeAnswered = TRUE
\* returns every question addressed to the team, whatever its status, and
\* with includeAnswered = FALSE only the PENDING ones.
C26_IncludeAnsweredReturnsAll ==
  \A memberId \in DOMAIN memberRepository :
    LET teamId == memberRepository[memberId].teamId
        all == GetInboxUseCase(memberRepository, teamRepository, questionRepository,
                               memberId, teamId, TRUE)
        pending == GetInboxUseCase(memberRepository, teamRepository, questionRepository,
                                   memberId, teamId, FALSE)
    IN Has(teamRepository, teamId) =>
         /\ Listed(all.questions) = AddressedTo(teamId)
         /\ Listed(pending.questions) =
              {q \in AddressedTo(teamId) : questionRepository[q].status = "PENDING"}

\* C27: the INBOX a joined member gets lists, once each, exactly the PENDING
\* questions addressed to the member's team, a question created later never
\* after one created earlier; totalCount is the number of questions listed
\* and pendingCount the number of those that are PENDING.
C27_InboxListsPendingNewestFirst ==
  [][\A k \in DOMAIN sock :
       (/\ Handles(k, "GET_INBOX")
        /\ clients[k].memberId \in DOMAIN memberRepository
        /\ Has(teamRepository, clients[k].teamId))
       => /\ Len(Pushed(k)) = 1
          /\ Pushed(k)[1].type = "INBOX"
          /\ LET items == Pushed(k)[1].questions
                 at(n) == questionRepository[items[n].questionId].createdAt
             IN /\ {items[n].questionId : n \in DOMAIN items} =
                     {q \in AddressedTo(clients[k].teamId) :
                        questionRepository[q].status = "PENDING"}
                /\ \A i, j \in DOMAIN items :
                     /\ i < j => at(i) >= at(j)
                     /\ i # j => items[i].questionId # items[j].questionId
                /\ \A n \in DOMAIN items :
                     /\ items[n].status = "PENDING"
                     /\ items[n].content = questionRepository[items[n].questionId].content
                /\ Pushed(k)[1].totalCount = Len(items)
                /\ Pushed(k)[1].pendingCount = Len(items)]_vars

\* a member's inbox lists two questions, the one created later first
C27_Witness ==
  \E k \in DOMAIN sock : \E n \in DOMAIN sock[k].inbox :
    LET inbox == sock[k].inbox[n] IN
    /\ inbox.type = "INBOX"
    /\ inbox.totalCount = 2
    /\ questionRepository[inbox.questions[1].questionId].createdAt >
         questionRepository[inbox.questions[2].questionId].createdAt

\* the open connections whose bound member is in a team's member set
ConnectionsOf(teamId) ==
  {j \in DOMAIN clients :
     /\ sock[j].hub = "open"
     /\ clients[j].memberId \in MemberIds(teamRepository, teamId)}

\* C28: an ASK that succeeds stores the question PENDING, is acknowledged
\* with one QUESTION_SENT, and pushes exactly one QUESTION, for that
\* question, to each open connection whose bound member belongs to the
\* target team and none to any other connection; with no such connection no
\* QUESTION is sent at all.
C28_QuestionGoesToTargetTeam ==
  [][\A k \in DOMAIN sock :
       (Handles(k, "ASK") /\ Len(questionRepository') = Len(questionRepository) + 1)
       => LET question == questionRepository'[Len(questionRepository')] IN
          /\ question.status = "PENDING"
          /\ Len(PushedOf(k, "QUESTION_SENT")) = 1
          /\ PushedOf(k, "QUESTION_SENT")[1].questionId = question.id
          /\ k \notin ConnectionsOf(question.toTeamId)
          /\ \A j \in DOMAIN sock :
               /\ Len(PushedOf(j, "QUESTION")) =
                    IF j \in ConnectionsOf(question.toTeamId) THEN 1 ELSE 0
               /\ \A n \in DOMAIN PushedOf(j, "QUESTION") :
                    PushedOf(j, "QUESTION")[n].questionId = question.id]_vars

\* the open connection, if any, that the hub's memberToWs gives for a member id
OwnerOf(memberId) ==
  {j \in DOMAIN sock :
     Has(memberToWs, memberId) /\ memberToWs[memberId] = j /\ sock[j].hub = "open"}

\* C29: a REPLY that succeeds marks the question ANSWERED, stores the answer,
\* and pushes exactly one ANSWER, for that question and with the answer's
\* content, to the open connection that owns the asker's member id and to no
\* other connection; when the asker has no open connection no ANSWER is
\* pushed at all.  The replier is sent nothing unless it is that connection.
C29_AnswerGoesToAskerOnly ==
  [][\A k \in DOMAIN sock :
       (Handles(k, "REPLY") /\ Len(answerRepository') = Len(answerRepository) + 1)
       => LET m == Head(sock[k].outbox)
              asker == questionRepository[m.questionId].fromMemberId
              answer == answerRepository'[Len(answerRepository')]
          IN /\ questionRepository'[m.questionId].status = "ANSWERED"
             /\ answer.questionId = m.questionId
             /\ Cardinality(OwnerOf(asker)) <= 1
             /\ \A j \in DOMAIN sock :
                  IF j \in OwnerOf(asker)
                  THEN /\ Len(Pushed(j)) = 1
                       /\ Pushed(j)[1].type = "ANSWER"
                       /\ Pushed(j)[1].questionId = m.questionId
                       /\ Pushed(j)[1].content = answer.content
                       /\ Pushed(j)[1].member.memberId = clients[k].memberId
                  ELSE Pushed(j) = <<>>]_vars

\* a question is ANSWERED and its answer stored although the asker's
\* connection was closed before the reply: the asker's ask never got an
\* answer and no ANSWER is in flight
C29_Witness ==
  \E q \in DOMAIN questionRepository :
    /\ questionRepository[q].status = "ANSWERED"
    /\ \E n \in DOMAIN answerRepository : answerRepository[n].questionId = q
    /\ OwnerOf(questionRepository[q].fromMemberId) = {}
    /\ \A j \in DOMAIN sock : \A n \in DOMAIN sock[j].inbox : sock[j].inbox[n].type # "ANSWER"
    /\ \A c \in Client : \A i \in DOMAIN calls[c] :
         calls[c][i].kind = "ask" => calls[c][i].value = NoMsg

\* C30: a JOIN that succeeds pushes exactly one MEMBER_JOINED, describing the
\* new member, to each open connection other than the joining one whose
\* bound member belongs to the joined team, and none to the joining
\* connection or to a connection whose member is in no or another team; the
\* joining connection gets one JOINED.
C30_JoinIsAnnouncedToTeammates ==
  [][\A k \in DOMAIN sock :
       (Handles(k, "JOIN") /\ DOMAIN memberRepository' # DOMAIN memberRepository)
       => LET memberId == clients'[k].memberId
              teamId == clients'[k].teamId
          IN /\ Len(PushedOf(k, "JOINED")) = 1
             /\ PushedOf(k, "JOINED")[1].member.memberId = memberId
             /\ \A j \in DOMAIN sock :
                  /\ Len(PushedOf(j, "MEMBER_JOINED")) =
                       IF j # k /\ j \in ConnectionsOf(teamId) THEN 1 ELSE 0
                  /\ \A n \in DOMAIN PushedOf(j, "MEMBER_JOINED") :
                       /\ PushedOf(j, "MEMBER_JOINED")[n].member.memberId = memberId
                       /\ PushedOf(j, "MEMBER_JOINED")[n].member.teamId = teamId]_vars

\* some question goes from PENDING to TIMEOUT in this step
TimesOut(q) ==
  /\ q \in DOMAIN questionRepository
  /\ questionRepository[q].status = "PENDING"
  /\ questionRepository'[q].status = "TIMEOUT"

\* C31: a step in which the sweep times a question out changes nothing but
\* the status of PENDING questions, which becomes TIMEOUT, and it takes every
\* PENDING question that is as old as one it takes; the other questions, the
\* answers, members and teams, the connection table and memberToWs stay as
\* they were and no message is sent to any connection.
C31_SweepOnlyTimesOut ==
  [][(\E q \in DOMAIN questionRepository : TimesOut(q)) =>
       /\ DOMAIN questionRepository' = DOMAIN questionRepository
       /\ \A q \in DOMAIN questionRepository :
            \/ questionRepository'[q] = questionRepository[q]
            \/ /\ TimesOut(q)
               /\ questionRepository'[q] = [questionRepository[q] EXCEPT !.status = "TIMEOUT"]
       /\ \A q, older \in DOMAIN questionRepository :
            (/\ TimesOut(q)
             /\ questionRepository[older].status = "PENDING"
             /\ questionRepository[older].createdAt <= questionRepository[q].createdAt)
            => TimesOut(older)
       /\ UNCHANGED <<answerRepository, memberRepository, teamRepository, clients,
                      memberToWs, sock>>]_vars

\* the sweep has timed out the older of two questions and left the newer one
\* PENDING
C31_Witness ==
  \E q, r \in DOMAIN questionRepository :
    /\ questionRepository[q].status = "TIMEOUT"
    /\ questionRepository[r].status = "PENDING"
    /\ questionRepository[q].createdAt < questionRepository[r].createdAt

\* this step is a heartbeat sweep
Sweeps ==
  /\ "H" \in DOMAIN todo
  /\ todo["H"] # <<>>
  /\ Head(todo["H"]).op = "terminate"
  /\ todo'["H"] = Tail(todo["H"])
\* the live connections (the hub has not terminated them)
Live == {k \in DOMAIN clients : sock[k].hub = "open"}

\* C32: a message that arrives from a connection counts as its last observed
\* activity (after the hub took it, the connection is not older than the client
\* timeout); a heartbeat sweep terminates exactly the live connections whose
\* last activity is older than the client timeout; and a terminated connection
\* gets no further message and is then handled as a disconnect: when it leaves
\* the connection table its member goes OFFLINE and leaves the team.
C32_HeartbeatTerminatesTheSilent ==
  [][/\ \A k \in DOMAIN sock : Takes(k) /\ Has(clients', k) => lastPing'[k] = "recent"
     /\ Sweeps => \A k \in Live : sock'[k].hub = "closed" <=> lastPing[k] = "old"
     /\ \A k \in DOMAIN clients :
          sock[k].hub = "closed" /\ wss' = wss
          => /\ Len(sock'[k].inbox) <= Len(sock[k].inbox) /\ sock'[k].outbox = <<>>
             /\ ~Has(clients', k) /\ clients[k].memberId # NoId
                => /\ memberRepository'[clients[k].memberId].status = "OFFLINE"
                   /\ ~Has(memberToWs', clients[k].memberId)
                   /\ \A t \in DOMAIN teamRepository' :
                        clients[k].memberId \notin MemberIds(teamRepository', t)]_vars

\* C33: the hub handles the messages of a connection in the order they were
\* sent: the message it takes is the oldest one in flight, and an ASK, REPLY or
\* GET_INBOX is not answered NOT_JOINED while a JOIN sent before it on the same
\* connection has not been completed.
C33_MessagesHandledInSendOrder ==
  [][\A k \in DOMAIN clients :
       sock[k].hub = "open" /\ sock'[k].hub = "open"
       => /\ Len(sock'[k].outbox) < Len(sock[k].outbox)
             => sock'[k].outbox = Tail(sock[k].outbox)
          /\ (\E n \in DOMAIN PushedOf(k, "ERROR") :
                PushedOf(k, "ERROR")[n].code = "NOT_JOINED")
             => Head(sock[k].outbox).type # "JOIN"]_vars

\* C34: the ANSWER an ask call returns carries the question id that the
\* call's QUESTION_SENT announced, and no two ask calls of a client return the
\* ANSWER of one question.
C34_AskReturnsTheAnswerToItsQuestion ==
  \A c \in Client : \A i \in Asks(c) :
    calls[c][i].state = "resolved"
    => /\ calls[c][i].value.questionId = calls[c][i].ack.questionId
       /\ \A j \in Asks(c) \ {i} :
            calls[c][j].state = "resolved"
            => calls[c][j].value.questionId # calls[c][i].value.questionId

\* C35: memberToWs has an entry for a member exactly when a connection of the
\* connection table is bound to that member, and the entry is that connection.
C35_MemberToWsMatchesBindings ==
  /\ \A m \in DOMAIN memberToWs :
       /\ Has(clients, memberToWs[m])
       /\ clients[memberToWs[m]].memberId = m
  /\ \A k \in DOMAIN clients :
       clients[k].memberId # NoId
       => Has(memberToWs, clients[k].memberId) /\ memberToWs[clients[k].memberId] = k

\* C36: while the hub runs, every member id in a team's member set is the
\* member some connection of the connection table is bound to, and that member
\* is not OFFLINE.
C36_TeamMembersAreBoundAndOnline ==
  wss = "listening"
  => \A t \in DOMAIN teamRepository : \A m \in MemberIds(teamRepository, t) :
       /\ \E k \in DOMAIN clients : clients[k].memberId = m
       /\ memberRepository[m].status # "OFFLINE"

\* C37: the member who answered a question belongs to the team the question
\* was asked to (a REPLY by a member of another team, the asker included, does
\* not make the question ANSWERED).
C37_OnlyTargetTeamAnswers ==
  \A q \in DOMAIN questionRepository :
    questionRepository[q].status = "ANSWERED"
    => memberRepository[questionRepository[q].answeredByMemberId].teamId
         = questionRepository[q].toTeamId

\* the messages the client takes from socket k in this step
Taken(k) ==
  IF Len(sock'[k].inbox) < Len(sock[k].inbox)
     /\ sock'[k].inbox = SubSeq(sock[k].inbox,
                                Len(sock[k].inbox) - Len(sock'[k].inbox) + 1,
                                Len(sock[k].inbox))
  THEN SubSeq(sock[k].inbox, 1, Len(sock[k].inbox) - Len(sock'[k].inbox))
  ELSE <<>>

\* C38: the step in which the hub stores a question sends its QUESTION_SENT
\* and no ANSWER, and an ANSWER is only sent for a question stored before, so
\* QUESTION_SENT precedes every ANSWER to the question on the asker's
\* connection; and once the client has taken the ANSWER to a question from
\* the socket, no ask call acknowledged for that question is still waiting
\* for its answer.
C38_AnswerAfterQuestionSentIsNotLost ==
  [][/\ \A j \in DOMAIN sock : \A n \in DOMAIN PushedOf(j, "ANSWER") :
          PushedOf(j, "ANSWER")[n].questionId \in DOMAIN questionRepository
     /\ \A q \in DOMAIN questionRepository' \ DOMAIN questionRepository :
          \E j \in DOMAIN sock : \E n \in DOMAIN PushedOf(j, "QUESTION_SENT") :
            PushedOf(j, "QUESTION_SENT")[n].questionId = q
     /\ \A k \in DOMAIN sock : \A n \in DOMAIN Taken(k) :
          Taken(k)[n].type = "ANSWER"
          => \A i \in Asks(sock[k].owner) :
               ~(/\ calls'[sock[k].owner][i].stage = "answer"
                 /\ calls'[sock[k].owner][i].state = "pending"
                 /\ calls'[sock[k].owner][i].ack.questionId = Taken(k)[n].questionId)]_vars

\* the answers stored for question q
AnswersTo(q) == SelectSeq(answerRepository, LAMBDA a : a.questionId = q)

\* C39: the question store and the answer store agree: a question is ANSWERED
\* exactly when an Answer with its id is stored; that Answer is the only one,
\* it comes from the question's answeredByMemberId and the question's
\* answeredAt is set; every stored Answer is the answer to a stored question.
C39_StoresAgree ==
  /\ \A q \in DOMAIN questionRepository :
       /\ questionRepository[q].status = "ANSWERED" <=> AnswersTo(q) # <<>>
       /\ questionRepository[q].status = "ANSWERED"
          => /\ Len(AnswersTo(q)) = 1
             /\ AnswersTo(q)[1].fromMemberId = questionRepository[q].answeredByMemberId
             /\ questionRepository[q].answeredAt # 0
  /\ \A n \in DOMAIN answerRepository :
       answerRepository[n].questionId \in DOMAIN questionRepository

\* one question is answered, its answer stored, and another one has timed out
\* with no answer
C39_Witness ==
  \E q, r \in DOMAIN questionRepository :
    /\ questionRepository[q].status = "ANSWERED" /\ AnswersTo(q) # <<>>
    /\ questionRepository[r].status = "TIMEOUT" /\ AnswersTo(r) = <<>>

\* C40: while an ask call still waits, within the timeoutMs it was called
\* with, for the answer to its question, the hub has not marked that question
\* TIMEOUT.
C40_NoHubTimeoutBeforeAskersDeadline ==
  \A c \in Client : \A i \in Asks(c) :
    (/\ calls[c][i].stage = "answer" /\ calls[c][i].state = "pending"
     /\ ~calls[c][i].overdue
     /\ calls[c][i].ack.questionId \in DOMAIN questionRepository)
    => questionRepository[calls[c][i].ack.questionId].status # "TIMEOUT"

====
